---- MODULE Spec2Model ----
(***************************************************************************)
(* The layer chain of vlearning.layers: a heap of Layer objects linked by  *)
(* next_layer, the class-wide name counter, and the structural operations  *)
(* of layer.py (constructors, add, +=, +, []) with the overrides of        *)
(* InputLayer, DenseLayer and LossLayer.                                   *)
(*                                                                         *)
(* Objects have identity: a node is an index into heap, a Python list      *)
(* (a weight matrix, a bias vector) is an index into lists.  deepcopy      *)
(* allocates new indices, so aliasing is visible.                          *)
(***************************************************************************)
EXTENDS Integers, Sequences, FiniteSets, TLC

\* ------------------------------------------------------------------ bounds
\* Largest number of Layer objects alive in the heap.
MaxNodes == 6
\* Largest number of constructor calls (the rest of the heap is copies).
MaxNew == 2
\* Widths passed to the constructors are 1..MaxWidth.
MaxWidth == 2
\* Period of the modelled random generator: it has Period states and
\* yields Period distinct values.
Period == 2
\* Largest number of operations that change the heap in one run.
MaxOps == 3
\* Largest number of layers a network is built from in one go.
MaxLayers == 3
\* Largest number of instances in a data set.
MaxInst == 2
\* Largest number of training and fitting calls in one run.
MaxSteps == 1
\* Largest number of epochs asked of fit.
MaxEpochs == 2
\* Largest magnitude of the numbers a call is computed with (sums and
\* products of three such stay within TLC's integers).
Magnitude == 10000
\* A float is kept as a fixed-point number: the integer n stands for
\* n / Unit.
Unit == 10000
\* The largest number math.exp returns (in Units; Largest * 2718 stays
\* within TLC's integers).
Largest == 700000
\* Largest number of entries of a vector handed to softmax.
MaxClasses == 3
\* A magnitude so large that exp of it does not fit a float.
Far == 10
\* The arguments of the logarithm are the numbers within Near Units of 0,
\* and some further off.
Near == 20

\* ------------------------------------------------------------- vocabulary
\* Python's None, for references and for unset widths (widths are >= 1).
None == 0

\* The concrete layer classes.  ActivationLayer and SoftmaxLayer inherit
\* add, _set_inputs and (but for the activation argument) __init__ from
\* Layer unchanged; an instance of Layer itself behaves as they do.
Classes == {"InputLayer", "DenseLayer", "ActivationLayer", "SoftmaxLayer", "LossLayer"}

\* Names a caller passes explicitly; "" stands for name=None.
UserNames == {"h"}

VARIABLES
    heap,      \* Seq of Layer objects; a reference is an index, None is 0
    lists,     \* Seq of list objects (weights: rows of entries; biases)
    counter,   \* Layer._counter: class name -> instances constructed
    rng,       \* state of the global generator of the random module
    ops,       \* operations run so far that may change the heap
    result     \* the last operation: its arguments, exception and value

VARIABLES
    steps,       \* training and fitting calls run so far
    perceptrons  \* Seq of Perceptron objects (perceptron.py)

\* The state the operations of layer.py never touch.
rest == <<steps, perceptrons>>

vars == <<heap, lists, counter, rng, ops, result, steps, perceptrons>>

Refs(h) == 1..Len(h)

\* ------------------------------------------------------------ traversal
\* The nodes met following next_layer from x, in order, each once: the
\* walk of __iter__/__len__ cut where it would revisit a node.
RECURSIVE Walk(_, _, _)
Walk(h, x, seen) ==
    IF x = None \/ x \in seen THEN <<>>
    ELSE <<x>> \o Walk(h, h[x].next_layer, seen \cup {x})

Path(h, x) == Walk(h, x, {})

Range(s) == {s[i] : i \in 1..Len(s)}

Last(s) == s[Len(s)]

\* Following next_layer from x comes back to a node already visited.
Cyclic(h, x) == h[Last(Path(h, x))].next_layer # None

\* f"{type(self).__name__}_{Layer._counter[type(self)]}"
AutoName(cls, n) == cls \o "_" \o ToString(n)

\* ---------------------------------------------------------- constructors
\* Layer.__init__: counts the instance, leaves num_inputs unset, takes the
\* name given or the generated one and stores next_layer as passed (no
\* width is propagated into it).
Layer_init(c, cls, num_outputs, name, next_layer) ==
    [cls |-> cls,
     num_inputs |-> None,
     num_outputs |-> num_outputs,
     name |-> IF name # "" THEN name ELSE AutoName(cls, c[cls] + 1),
     next_layer |-> next_layer,
     weights |-> None,
     biases |-> None]

\* DenseLayer.__init__: a new bias list of num_outputs zeros, no weights.
DenseLayer_init(l, node) ==
    [node |-> [node EXCEPT !.biases = Len(l) + 1],
     lists |-> Append(l, [o \in 1..node.num_outputs |-> 0])]

\* InputLayer.__init__: adds training_history = {"loss": []}, a dict (a
\* function from its keys) the layer holds by itself.
InputLayer_init(node) ==
    node @@ ("training_history" :> ("loss" :> <<>>))

\* LossLayer.__init__ passes num_outputs=None and no next_layer.
LossLayer_init(c, name) == Layer_init(c, "LossLayer", None, name, None)

\* cls(num_outputs, name=name, next_layer=next_layer): the new heap, lists
\* and counter.
Construct(h, l, c, cls, num_outputs, name, next_layer) ==
    LET base == IF cls = "LossLayer" THEN LossLayer_init(c, name)
                ELSE Layer_init(c, cls, num_outputs, name, next_layer)
        made == IF cls = "DenseLayer" THEN DenseLayer_init(l, base)
                ELSE IF cls = "InputLayer" THEN [node |-> InputLayer_init(base), lists |-> l]
                ELSE [node |-> base, lists |-> l]
    IN  [heap |-> Append(h, made.node),
         lists |-> made.lists,
         counter |-> [c EXCEPT ![cls] = @ + 1]]

\* ----------------------------------------------------------- _set_inputs
\* The value the generator yields in state g, as a weight entry.
Draw(g) == 2 * (g % Period) - 1

\* [[random.uniform(-limit, limit) for _ in range(num_inputs)]
\*  for _ in range(num_outputs)] with the generator in state g: consecutive
\* draws, row by row.
Xavier(g, num_outputs, num_inputs) ==
    [o \in 1..num_outputs |->
        [i \in 1..num_inputs |-> Draw(g + (o - 1) * num_inputs + (i - 1))]]

Outcome(h, l, g, exc) == [heap |-> h, lists |-> l, rng |-> g, exc |-> exc]

\* Layer._set_inputs: stores the width.
Layer_set_inputs(h, l, g, y, num_inputs) ==
    Outcome([h EXCEPT ![y].num_inputs = num_inputs], l, g, "none")

\* InputLayer._set_inputs: always raises.
InputLayer_set_inputs(h, l, g, y, num_inputs) ==
    Outcome(h, l, g, "TypeError")

\* DenseLayer._set_inputs: stores the width and binds weights to a newly
\* built matrix of num_outputs rows of num_inputs entries, advancing the
\* generator by one draw per entry.
DenseLayer_set_inputs(h, l, g, y, num_inputs) ==
    Outcome([h EXCEPT ![y].num_inputs = num_inputs, ![y].weights = Len(l) + 1],
            Append(l, Xavier(g, h[y].num_outputs, num_inputs)),
            (g + h[y].num_outputs * num_inputs) % Period,
            "none")

\* new_layer._set_inputs(num_inputs), dispatched on the class of new_layer.
set_inputs(h, l, g, y, num_inputs) ==
    CASE h[y].cls = "InputLayer" -> InputLayer_set_inputs(h, l, g, y, num_inputs)
      [] h[y].cls = "DenseLayer" -> DenseLayer_set_inputs(h, l, g, y, num_inputs)
      [] OTHER -> Layer_set_inputs(h, l, g, y, num_inputs)

\* ------------------------------------------------------------------- add
RECURSIVE add(_, _, _, _, _, _)

\* Layer.add: at the tail, first links new_layer, then sets its inputs
\* (which may raise with the link already made); elsewhere hands
\* new_layer to the successor.
Layer_add(h, l, g, x, y, seen) ==
    IF h[x].next_layer = None
    THEN set_inputs([h EXCEPT ![x].next_layer = y], l, g, y, h[x].num_outputs)
    ELSE add(h, l, g, h[x].next_layer, y, seen \cup {x})

\* Mutant: the LossLayer links the new layer and only then raises.
LossLayer_add_late_raise(h, l, g, x, y, seen) ==
    Outcome([h EXCEPT ![x].next_layer = y], l, g, "TypeError")

\* LossLayer.add: always raises, before touching anything.
LossLayer_add(h, l, g, x, y, seen) ==
    Outcome(h, l, g, "TypeError")

\* Mutant: LossLayer does not override add.
add_not_overridden(h, l, g, x, y, seen) ==
    IF x \in seen THEN Outcome(h, l, g, "RecursionError")
    ELSE Layer_add(h, l, g, x, y, seen)

\* x.add(y), dispatched on the class of x.  seen holds the nodes already
\* passed: coming back to one means the recursion never ends, and Python
\* raises RecursionError (nothing has been written by then).
add(h, l, g, x, y, seen) ==
    IF x \in seen THEN Outcome(h, l, g, "RecursionError")
    ELSE IF h[x].cls = "LossLayer" THEN LossLayer_add(h, l, g, x, y, seen)
    ELSE Layer_add(h, l, g, x, y, seen)

\* -------------------------------------------------------------- deepcopy
\* The position of node v on path p.
Pos(p, v) == CHOOSE i \in 1..Len(p) : p[i] = v

\* The list objects the nodes of path p refer to.
ListsOf(h, p) ==
    ({h[p[i]].weights : i \in 1..Len(p)} \cup {h[p[i]].biases : i \in 1..Len(p)}) \ {None}

\* Mutant: copy.copy(x), a new object for x alone that shares x's successor
\* and lists.
copy_shallow(h, l, x) ==
    [heap |-> Append(h, h[x]), lists |-> l, ret |-> Len(h) + 1]

\* Mutant: the copies are rebuilt as by their constructors, without the
\* weights of the originals.
deepcopy_unweighted(h, l, x) ==
    LET p == Path(h, x)
    IN  [heap |-> h \o [i \in 1..Len(p) |->
                         [h[p[i]] EXCEPT !.next_layer = IF @ = None THEN None ELSE Len(h) + Pos(p, @),
                                         !.weights = None]],
         lists |-> l,
         ret |-> Len(h) + 1]

\* copy.deepcopy(x): a new object for every node reachable from x and for
\* every list those nodes hold, linked as the originals are (the memo keeps
\* a cycle a cycle and a shared list shared).  No constructor runs, so the
\* counter and the names stay.  ret is the copy of x.
deepcopy(h, l, x) ==
    LET p == Path(h, x)
        used == ListsOf(h, p)
        newList(u) == IF u = None THEN None ELSE Len(l) + Cardinality({v \in used : v <= u})
        newNode(v) == IF v = None THEN None ELSE Len(h) + Pos(p, v)
        copies == [i \in 1..Len(p) |->
                    [h[p[i]] EXCEPT !.next_layer = newNode(@),
                                    !.weights = newList(@),
                                    !.biases = newList(@)]]
        rank(k) == CHOOSE u \in used : Cardinality({v \in used : v <= u}) = k
    IN  [heap |-> h \o copies,
         lists |-> l \o [k \in 1..Cardinality(used) |-> l[rank(k)]],
         ret |-> Len(h) + 1]

\* ---------------------------------------------------------------- __add__
\* x + y: result = deepcopy(x); result.add(deepcopy(y)); return result.
\* When add raises, nothing is returned and both copies are unreachable:
\* they are dropped from the heap.
Layer_plus(h, l, g, x, y) ==
    LET r1 == deepcopy(h, l, x)
        r2 == deepcopy(r1.heap, r1.lists, y)
        a == add(r2.heap, r2.lists, g, r1.ret, r2.ret, {})
    IN  IF a.exc = "none"
        THEN [heap |-> a.heap, lists |-> a.lists, rng |-> a.rng, exc |-> "none", ret |-> r1.ret]
        ELSE [heap |-> h, lists |-> l, rng |-> a.rng, exc |-> a.exc, ret |-> None]

\* ------------------------------------------------------------ __getitem__
\* A subscript: an int i, a str s, or a float of value i.
IntIdx(i) == [t |-> "int", i |-> i, s |-> ""]
StrIdx(s) == [t |-> "str", i |-> 0, s |-> s]
FloatIdx(i) == [t |-> "float", i |-> i, s |-> ""]

\* x[index]: the node found, or the exception raised.  An int index
\* counts down to 0 and so always stops; a str, or an int below 0, stops
\* only at a match or at the tail, so on coming back to a node (seen) the
\* recursion never ends: RecursionError.
RECURSIVE Layer_getitem(_, _, _, _)
Layer_getitem(h, x, index, seen) ==
    IF (index.t # "str" /\ index.i = 0) \/ (index.t = "str" /\ index.s = h[x].name)
    THEN [exc |-> "none", ret |-> x]
    ELSE IF x \in seen /\ (index.t = "str" \/ index.i < 0)
    THEN [exc |-> "RecursionError", ret |-> None]
    ELSE IF index.t = "int"
    THEN IF h[x].next_layer = None
         THEN [exc |-> "IndexError", ret |-> None]
         ELSE Layer_getitem(h, h[x].next_layer, IntIdx(index.i - 1), seen \cup {x})
    ELSE IF index.t = "str"
    THEN IF h[x].next_layer = None
         THEN [exc |-> "KeyError", ret |-> None]
         ELSE Layer_getitem(h, h[x].next_layer, index, seen \cup {x})
    ELSE [exc |-> "TypeError", ret |-> None]

\* ---------------------------------------------------------------- actions
NoIdx == IntIdx(0)

Op(op, x, y, index, exc, ret) ==
    [op |-> op, self |-> x, arg |-> y, index |-> index, exc |-> exc, ret |-> ret]

\* Constructor calls so far, over all classes.
Constructed == counter["InputLayer"] + counter["DenseLayer"] + counter["ActivationLayer"]
               + counter["SoftmaxLayer"] + counter["LossLayer"]

\* The program starts with no layer built, an empty counter and the
\* generator in whatever state earlier code left it.
Init ==
    /\ heap = <<>>
    /\ lists = <<>>
    /\ counter = [cls \in Classes |-> 0]
    /\ rng \in 0..(Period - 1)
    /\ ops = 0
    /\ result = Op("start", None, None, NoIdx, "none", None)
    /\ steps = 0
    /\ perceptrons = <<>>

\* node = cls(num_outputs, name=name, next_layer=next_layer) with name
\* drawn from names ("" is name=None).
New(names) ==
    \E cls \in Classes, num_outputs \in 1..MaxWidth, name \in names, next_layer \in Refs(heap) \cup {None} :
        /\ ops < MaxOps
        /\ Constructed < MaxNew
        /\ Len(heap) < MaxNodes
        \* LossLayer() takes neither argument: one choice stands for the call
        /\ cls = "LossLayer" => num_outputs = 1 /\ next_layer = None
        /\ LET r == Construct(heap, lists, counter, cls, num_outputs, name, next_layer)
           IN  /\ heap' = r.heap
               /\ lists' = r.lists
               /\ counter' = r.counter
               /\ result' = Op("new", None, next_layer, NoIdx, "none", Len(r.heap))
        /\ ops' = ops + 1
        /\ UNCHANGED <<rng, rest>>

\* x += y, which is x.add(y) followed by return x.
Layer_iadd(h, l, g, x, y) ==
    LET r == add(h, l, g, x, y, {})
    IN  [heap |-> r.heap, lists |-> r.lists, rng |-> r.rng, exc |-> r.exc,
         ret |-> IF r.exc = "none" THEN x ELSE None]

IAdd ==
    \E x \in Refs(heap), y \in Refs(heap) :
        LET r == Layer_iadd(heap, lists, rng, x, y)
        IN  /\ ops < MaxOps
            /\ heap' = r.heap
            /\ lists' = r.lists
            /\ rng' = r.rng
            /\ result' = Op("iadd", x, y, NoIdx, r.exc, r.ret)
            /\ ops' = ops + 1
            /\ UNCHANGED <<counter, rest>>

\* z = x + y
Plus ==
    \E x \in Refs(heap), y \in Refs(heap) :
        LET r == Layer_plus(heap, lists, rng, x, y)
        IN  /\ ops < MaxOps
            /\ Len(r.heap) <= MaxNodes
            /\ heap' = r.heap
            /\ lists' = r.lists
            /\ rng' = r.rng
            /\ result' = Op("plus", x, y, NoIdx, r.exc, r.ret)
            /\ ops' = ops + 1
            /\ UNCHANGED <<counter, rest>>

Names(h) == {h[v].name : v \in Refs(h)}

\* The subscripts tried: every position a chain in this heap can have and
\* one before and after, two floats, every name in use and one that is not.
Indices ==
    {IntIdx(i) : i \in -1..(Len(heap) + 1)} \cup {FloatIdx(i) : i \in 0..1}
    \cup {StrIdx(s) : s \in Names(heap) \cup {"missing"}}

\* x[index]
GetItem ==
    \E x \in Refs(heap), index \in Indices :
        LET r == Layer_getitem(heap, x, index, {})
        IN  /\ result' = Op("getitem", x, None, index, r.exc, r.ret)
            /\ UNCHANGED <<heap, lists, counter, rng, ops, rest>>

\* Composition: construction with generated names, += (add) and +.
Next == New({""}) \/ IAdd \/ Plus

Spec == Init /\ [][Next]_vars

\* Lookup: construction with generated and caller-supplied names, +=
\* and subscripting.
NextLookup == New(UserNames \cup {""}) \/ IAdd \/ GetItem

SpecLookup == Init /\ [][NextLookup]_vars

\* =============================================================== __call__
\* Numbers are integers: the data, the weights (Draw) and the learning
\* rates are chosen so that every product, sum and quotient of a call is
\* an integer, and rounding of floats is left out.
\*
\* An optional value: Python's None is Null, a value v is Some(v).
Null == <<>>

Some(v) == <<v>>

\* `not labels`: labels is None or an empty list.
NotLabels(labels) == labels = Null \/ labels[1] = <<>>

\* `not alpha`: alpha is None or 0.
NotAlpha(alpha) == alpha = Null \/ alpha[1] = 0

Min(a, b) == IF a <= b THEN a ELSE b

RECURSIVE Factorial(_)
Factorial(n) == IF n <= 1 THEN 1 ELSE n * Factorial(n - 1)

\* A learning rate that every batch size up to MaxInst divides.
Rate == Factorial(MaxInst)

\* sum(s) of Python, over a sequence of numbers.
RECURSIVE sum(_)
sum(s) == IF s = <<>> THEN 0 ELSE s[1] + sum(Tail(s))

\* The numbers of a list of vectors are all within Magnitude.
Small(vs) == \A k \in 1..Len(vs) : \A i \in 1..Len(vs[k]) : vs[k][i] <= Magnitude /\ -vs[k][i] <= Magnitude

\* loss_functions.mean_squared_error
mean_squared_error(yhat, y) == (yhat - y) * (yhat - y)

\* derivative(mean_squared_error): the central difference
\* (f(x + delta) - f(x - delta)) / (2 * delta) of a quadratic is 2(yhat - y).
mean_squared_error_prime(yhat, y) == 2 * (yhat - y)

\* activation_functions.linear, the default activation
linear(a) == a

\* derivative(linear): the central difference of the identity is 1.
linear_prime(a) == 1

\* What a call hands back: the lists as it leaves them and either the
\* exception raised or the tuple (y_hats, losses, gradients).
Returned(l, y_hats, losses, gradients) ==
    [lists |-> l, exc |-> "none", y_hats |-> y_hats, losses |-> losses, gradients |-> gradients]

Raised(l, exc) ==
    [lists |-> l, exc |-> exc, y_hats |-> <<>>, losses |-> Null, gradients |-> Null]

\* LossLayer.__call__: predictions alone without labels; with labels one
\* loss per (prediction, label) pair of zip, summed over range(num_inputs);
\* with a learning rate that is not 0 also the gradients.
LossLayer_call(h, l, x, y_hats, labels, alpha) ==
    IF NotLabels(labels) THEN Returned(l, y_hats, Null, Null)
    ELSE LET ys == labels[1]
             n == Min(Len(y_hats), Len(ys))
             w == h[x].num_inputs
         IN  IF n > 0 /\ w = None THEN Raised(l, "TypeError")
             ELSE IF \E k \in 1..n : Len(y_hats[k]) < w \/ Len(ys[k]) < w THEN Raised(l, "IndexError")
             ELSE LET losses == [k \in 1..n |->
                                    sum([i \in 1..w |-> mean_squared_error(y_hats[k][i], ys[k][i])])]
                      gradients == [k \in 1..n |->
                                    [i \in 1..w |-> mean_squared_error_prime(y_hats[k][i], ys[k][i])]]
                  IN  IF NotAlpha(alpha) THEN Returned(l, y_hats, Some(losses), Null)
                      ELSE Returned(l, y_hats, Some(losses), Some(gradients))

RECURSIVE call(_, _, _, _, _, _, _)

\* Mutant: a layer without successor hands back what it was given.
next_layer_or_nothing(h, l, x, xs, labels, alpha, seen) ==
    IF h[x].next_layer = None THEN Returned(l, xs, Null, Null)
    ELSE call(h, l, h[x].next_layer, xs, labels, alpha, seen \cup {x})

\* self.next_layer(xs, labels, alpha=alpha); calling None is a TypeError.
next_layer_call(h, l, x, xs, labels, alpha, seen) ==
    IF h[x].next_layer = None THEN Raised(l, "TypeError")
    ELSE call(h, l, h[x].next_layer, xs, labels, alpha, seen \cup {x})

\* InputLayer.__call__: hands everything to the successor.
InputLayer_call(h, l, x, xs, labels, alpha, seen) ==
    next_layer_call(h, l, x, xs, labels, alpha, seen)

\* ActivationLayer.__call__ with the default activation: the first
\* num_outputs entries of every instance go forward; on the way back,
\* unless `not alpha`, the gradients of zip(xs, gradients) over
\* range(num_inputs).
ActivationLayer_call(h, l, x, xs, labels, alpha, seen) ==
    IF \E k \in 1..Len(xs) : Len(xs[k]) < h[x].num_outputs THEN Raised(l, "IndexError")
    ELSE LET hs == [k \in 1..Len(xs) |-> [o \in 1..h[x].num_outputs |-> linear(xs[k][o])]]
             w == h[x].num_inputs
             back(r) ==
                 LET gs == r.gradients[1]
                     n == Min(Len(xs), Len(gs))
                 IN  IF r.exc # "none" THEN r
                     ELSE IF NotAlpha(alpha) THEN Returned(r.lists, r.y_hats, r.losses, Null)
                     ELSE IF r.gradients = Null THEN Raised(r.lists, "TypeError")
                     ELSE IF n > 0 /\ w = None THEN Raised(r.lists, "TypeError")
                     ELSE IF \E k \in 1..n : Len(xs[k]) < w \/ Len(gs[k]) < w
                          THEN Raised(r.lists, "IndexError")
                     ELSE Returned(r.lists, r.y_hats, r.losses,
                                   Some([k \in 1..n |-> [i \in 1..w |-> linear_prime(xs[k][i]) * gs[k][i]]]))
         IN  back(next_layer_call(h, l, x, hs, labels, alpha, seen))

\* exp(x - max) / sum of them, for a vector of one entry: exp(0) / exp(0).
\* Longer vectors have no integer softmax and are not computed.
Softmax(v) == [i \in 1..Len(v) |-> 1]

\* A call is computed when no SoftmaxLayer is handed a vector of two or
\* more entries.
Exact(xs) == \A k \in 1..Len(xs) : Len(xs[k]) = 1

\* SoftmaxLayer.__call__: returns its own y_hats with the successor's
\* losses; on the way back the gradients of zip(y_hats, gradients).
SoftmaxLayer_call(h, l, x, xs, labels, alpha, seen) ==
    IF ~Exact(xs) THEN Raised(l, "NotComputed")
    ELSE LET y_hats == [k \in 1..Len(xs) |-> Softmax(xs[k])]
             w == h[x].num_inputs
             m == h[x].num_outputs
             back(r) ==
                 LET gs == r.gradients[1]
                     n == Min(Len(y_hats), Len(gs))
                 IN  IF r.exc # "none" THEN r
                     ELSE IF NotAlpha(alpha) THEN Returned(r.lists, y_hats, r.losses, Null)
                     ELSE IF r.gradients = Null THEN Raised(r.lists, "TypeError")
                     ELSE IF n > 0 /\ w = None THEN Raised(r.lists, "TypeError")
                     ELSE IF \E k \in 1..n : Len(gs[k]) < m \/ Len(y_hats[k]) < m \/ Len(y_hats[k]) < w
                          THEN Raised(r.lists, "IndexError")
                     ELSE Returned(r.lists, y_hats, r.losses,
                                   Some([k \in 1..n |-> [i \in 1..w |->
                                       sum([o \in 1..m |->
                                           gs[k][o] * y_hats[k][o] * ((IF i = o THEN 1 ELSE 0) - y_hats[k][i])])]]))
         IN  back(next_layer_call(h, l, x, y_hats, labels, alpha, seen))

\* sum(wi * xi for wi, xi in zip(ws, x))
Dot(ws, x) == sum([i \in 1..Min(Len(ws), Len(x)) |-> ws[i] * x[i]])

\* The update loop of DenseLayer.__call__ from instance k on, in the
\* order of the code: for each (x, gradient) of zip, for each unit o, the
\* bias, then the weights of o entry by entry.  An instance shorter than
\* num_inputs raises IndexError at x[i], with the bias of unit 0 and the
\* entries before i already written.
RECURSIVE DenseLayer_update(_, _, _, _, _, _, _, _)
DenseLayer_update(W, B, xs, gs, k, m, w, scaled_alpha) ==
    IF k > Min(Len(xs), Len(gs)) THEN [weights |-> W, biases |-> B, exc |-> "none"]
    ELSE LET x == xs[k]
             update_size(o) == scaled_alpha * gs[k][o]
         IN  IF Len(x) >= w
             THEN DenseLayer_update(
                      [o \in 1..m |-> [i \in 1..w |-> W[o][i] - update_size(o) * x[i]]],
                      [o \in 1..m |-> B[o] - update_size(o)],
                      xs, gs, k + 1, m, w, scaled_alpha)
             ELSE [weights |-> [W EXCEPT ![1] = [i \in 1..w |->
                                   IF i <= Len(x) THEN W[1][i] - update_size(1) * x[i] ELSE W[1][i]]],
                   biases |-> [B EXCEPT ![1] = @ - update_size(1)],
                   exc |-> "IndexError"]

\* Mutant: the gradients are computed after the update loop, from the
\* weights it has written.
new_gradients_after_update(W, u, gs, m, w) ==
    [k \in 1..Len(gs) |-> [i \in 1..w |-> sum([o \in 1..m |-> u.weights[o][i] * gs[k][o]])]]

\* The gradients of a DenseLayer's outputs to its inputs, computed before
\* the update loop (whose outcome is u) from the weights W as they are.
DenseLayer_new_gradients(W, u, gs, m, w) ==
    [k \in 1..Len(gs) |-> [i \in 1..w |-> sum([o \in 1..m |-> W[o][i] * gs[k][o]])]]

\* Mutant: the update is not averaged over the batch.
unscaled_alpha(alpha, xs) == alpha[1]

\* scaled_alpha = alpha / len(xs)
scaled_alpha(alpha, xs) == alpha[1] \div Len(xs)

\* DenseLayer.__call__: the linear outputs of every instance go forward;
\* on the way back, unless `not alpha`, first the gradients to the inputs
\* from the weights as they are, then the update of biases and weights in
\* place with alpha / len(xs).
DenseLayer_call(h, l, x, xs, labels, alpha, seen) ==
    IF Len(xs) > 0 /\ h[x].weights = None THEN Raised(l, "TypeError")
    ELSE IF h[x].weights # None /\ ~(Small(l[h[x].weights]) /\ Small(<<l[h[x].biases]>>))
    THEN Raised(l, "NotComputed")
    ELSE LET m == h[x].num_outputs
             w == h[x].num_inputs
             linear_outputs == [k \in 1..Len(xs) |->
                                   [o \in 1..m |-> l[h[x].biases][o] + Dot(l[h[x].weights][o], xs[k])]]
             updated(r, gs, W, B, u) ==
                 IF u.exc # "none"
                 THEN Raised([r.lists EXCEPT ![h[x].weights] = u.weights, ![h[x].biases] = u.biases], u.exc)
                 ELSE Returned([r.lists EXCEPT ![h[x].weights] = u.weights, ![h[x].biases] = u.biases],
                               r.y_hats, r.losses, Some(DenseLayer_new_gradients(W, u, gs, m, w)))
             update(r, gs, W, B) ==
                 updated(r, gs, W, B, DenseLayer_update(W, B, xs, gs, 1, m, w, scaled_alpha(alpha, xs)))
             gradients(r, gs) ==
                 IF ~Small(gs) THEN Raised(r.lists, "NotComputed")
                 ELSE IF Len(gs) > 0 /\ w = None THEN Raised(r.lists, "TypeError")
                 ELSE IF \E k \in 1..Len(gs) : Len(gs[k]) < m THEN Raised(r.lists, "IndexError")
                 ELSE IF Len(xs) = 0 THEN Raised(r.lists, "ZeroDivisionError")
                 ELSE update(r, gs, r.lists[h[x].weights], r.lists[h[x].biases])
             back(r) ==
                 IF r.exc # "none" THEN r
                 ELSE IF NotAlpha(alpha) THEN Returned(r.lists, r.y_hats, r.losses, Null)
                 ELSE IF r.gradients = Null THEN Raised(r.lists, "TypeError")
                 ELSE gradients(r, r.gradients[1])
         IN  back(next_layer_call(h, l, x, linear_outputs, labels, alpha, seen))

\* x(xs, labels, alpha=alpha), dispatched on the class of x.  Every write
\* of a call happens on the way back, so a chain that leads back to a node
\* already entered (seen) recurses until RecursionError with nothing
\* written.  Numbers beyond Magnitude are not computed.
call(h, l, x, xs, labels, alpha, seen) ==
    IF x \in seen THEN Raised(l, "RecursionError")
    ELSE IF ~Small(xs) THEN Raised(l, "NotComputed")
    ELSE CASE h[x].cls = "InputLayer" -> InputLayer_call(h, l, x, xs, labels, alpha, seen)
           [] h[x].cls = "DenseLayer" -> DenseLayer_call(h, l, x, xs, labels, alpha, seen)
           [] h[x].cls = "ActivationLayer" -> ActivationLayer_call(h, l, x, xs, labels, alpha, seen)
           [] h[x].cls = "SoftmaxLayer" -> SoftmaxLayer_call(h, l, x, xs, labels, alpha, seen)
           [] h[x].cls = "LossLayer" -> LossLayer_call(h, l, x, xs, labels, alpha)

\* ============================================ predict, evaluate and fitting
\* A mean is kept as the fraction sum / count.
Mean(total, count) == [num |-> total, den |-> count]

\* What a method of InputLayer hands back: the heap and lists as it leaves
\* them and either the exception raised (ret is Null) or the value
\* returned: a list for predict, Some(mean) for evaluate, Null (None) for
\* partial_fit.
Done(h, l, ret) == [heap |-> h, lists |-> l, exc |-> "none", ret |-> ret]

Failed(h, l, exc) == [heap |-> h, lists |-> l, exc |-> exc, ret |-> Null]

\* InputLayer.predict: y_hats, _, _ = self(xs)
InputLayer_predict(h, l, x, xs) ==
    LET unpack(r) ==
            IF r.exc # "none" THEN Failed(h, r.lists, r.exc)
            ELSE Done(h, r.lists, r.y_hats)
    IN  unpack(call(h, l, x, xs, Null, Null, {}))

\* Mutant: evaluate hands the chain a learning rate with the labels.
evaluate_with_rate(h, l, x, xs, labels) ==
    LET unpack(r) ==
            IF r.exc # "none" THEN Failed(h, r.lists, r.exc)
            ELSE IF r.losses = Null THEN Failed(h, r.lists, "TypeError")
            ELSE IF Len(r.losses[1]) = 0 THEN Failed(h, r.lists, "ZeroDivisionError")
            ELSE Done(h, r.lists, Some(Mean(sum(r.losses[1]), Len(r.losses[1]))))
    IN  unpack(call(h, l, x, xs, labels, Some(Rate), {}))

\* InputLayer.evaluate: _, losses, _ = self(xs, labels), then
\* sum(losses) / len(losses).
InputLayer_evaluate(h, l, x, xs, labels) ==
    LET unpack(r) ==
            IF r.exc # "none" THEN Failed(h, r.lists, r.exc)
            ELSE IF r.losses = Null THEN Failed(h, r.lists, "TypeError")
            ELSE IF Len(r.losses[1]) = 0 THEN Failed(h, r.lists, "ZeroDivisionError")
            ELSE Done(h, r.lists, Some(Mean(sum(r.losses[1]), Len(r.losses[1]))))
    IN  unpack(call(h, l, x, xs, labels, Null, {}))

\* Mutant: every batch is cut from the start of the data.
slice_from_start(s, i, b) == SubSeq(s, 1, Min(b, Len(s)))

\* s[i:i + b] of Python, i counted from 0.
Slice(s, i, b) == SubSeq(s, i + 1, Min(i + b, Len(s)))

\* The batch loop of partial_fit from offset i on: one training call per
\* batch, its losses appended to epoch_losses (extend(None) is a
\* TypeError).
RECURSIVE batches(_, _, _, _, _, _, _, _, _)
batches(h, l, x, xs, labels, alpha, batch_size, i, epoch_losses) ==
    IF i >= Len(xs) THEN [lists |-> l, exc |-> "none", epoch_losses |-> epoch_losses]
    ELSE IF labels = Null THEN [lists |-> l, exc |-> "TypeError", epoch_losses |-> epoch_losses]
    ELSE LET extend(r) ==
                 IF r.exc # "none" THEN [lists |-> r.lists, exc |-> r.exc, epoch_losses |-> epoch_losses]
                 ELSE IF r.losses = Null
                 THEN [lists |-> r.lists, exc |-> "TypeError", epoch_losses |-> epoch_losses]
                 ELSE batches(h, r.lists, x, xs, labels, alpha, batch_size, i + batch_size,
                              epoch_losses \o r.losses[1])
         IN  extend(call(h, l, x, Slice(xs, i, batch_size), Some(Slice(labels[1], i, batch_size)),
                         alpha, {}))

\* InputLayer.partial_fit: batch_size or len(xs) (range with step 0 is a
\* ValueError), the batch loop, the mean of the collected losses appended
\* under "loss", and with validation_data the evaluation appended under
\* "validation_loss" (a key __init__ does not make).
InputLayer_partial_fit(h, l, x, xs, labels, alpha, validation_data, batch_size) ==
    LET num_instances == Len(xs)
        size == IF batch_size = Null \/ batch_size[1] = 0 THEN num_instances ELSE batch_size[1]
        th == h[x].training_history
        validated(h1, v) ==
            IF v.exc # "none" THEN Failed(h1, v.lists, v.exc)
            ELSE IF "validation_loss" \notin DOMAIN h1[x].training_history
            THEN Failed(h1, v.lists, "KeyError")
            ELSE Done([h1 EXCEPT ![x].training_history["validation_loss"] = Append(@, v.ret[1])],
                      v.lists, Null)
        appended(b, h1) ==
            IF validation_data = Null THEN Done(h1, b.lists, Null)
            ELSE validated(h1, InputLayer_evaluate(h1, b.lists, x, validation_data[1][1],
                                                   validation_data[1][2]))
        trained(b) ==
            IF b.exc # "none" THEN Failed(h, b.lists, b.exc)
            ELSE IF num_instances = 0 THEN Failed(h, b.lists, "ZeroDivisionError")
            ELSE appended(b, [h EXCEPT ![x].training_history =
                                 [th EXCEPT !["loss"] =
                                     Append(th["loss"], Mean(sum(b.epoch_losses), num_instances))]])
    IN  IF size = 0 THEN Failed(h, l, "ValueError")
        ELSE trained(batches(h, l, x, xs, labels, alpha, size, 0, <<>>))

\* Mutant: every instance is paired with the first label.
paired_with_first_label(xs, labels) ==
    [k \in 1..Min(Len(xs), Len(labels)) |-> <<xs[k], labels[1]>>]

\* list(zip(xs, labels))
paired_lists(xs, labels) ==
    [k \in 1..Min(Len(xs), Len(labels)) |-> <<xs[k], labels[k]>>]

\* random.shuffle(pairs) that leaves the pairs in the given order.
shuffle(pairs, order) == [k \in 1..Len(pairs) |-> pairs[order[k]]]

\* The epoch loop of fit from epoch e on.  shuffles[e] is the order
\* shuffle leaves the (instance, label) pairs of zip(xs, labels) in;
\* unpacking zip(*[]) is a ValueError.  partial_fits counts the calls of
\* partial_fit made.
RECURSIVE epochs_from(_, _, _, _, _, _, _, _, _, _, _, _)
epochs_from(h, l, x, xs, labels, alpha, epochs, validation_data, batch_size, shuffles, e, partial_fits) ==
    IF e > epochs THEN [heap |-> h, lists |-> l, exc |-> "none", partial_fits |-> partial_fits]
    ELSE IF labels = Null THEN [heap |-> h, lists |-> l, exc |-> "TypeError", partial_fits |-> partial_fits]
    ELSE LET n == Min(Len(xs), Len(labels[1]))
             shuffled == shuffle(paired_lists(xs, labels[1]), shuffles[e])
             xs_shuffled == [k \in 1..n |-> shuffled[k][1]]
             labels_shuffled == [k \in 1..n |-> shuffled[k][2]]
             fitted(r) ==
                 IF r.exc # "none"
                 THEN [heap |-> r.heap, lists |-> r.lists, exc |-> r.exc, partial_fits |-> partial_fits + 1]
                 ELSE epochs_from(r.heap, r.lists, x, xs, labels, alpha, epochs, validation_data,
                                  batch_size, shuffles, e + 1, partial_fits + 1)
         IN  IF n = 0 THEN [heap |-> h, lists |-> l, exc |-> "ValueError", partial_fits |-> partial_fits]
             ELSE fitted(InputLayer_partial_fit(h, l, x, xs_shuffled, Some(labels_shuffled), alpha,
                                                validation_data, batch_size))

\* InputLayer.fit: with validation_data makes sure of the
\* "validation_loss" key, runs the epochs and returns training_history.
InputLayer_fit(h, l, x, xs, labels, alpha, epochs, validation_data, batch_size, shuffles) ==
    LET th == h[x].training_history
        h0 == IF validation_data # Null /\ "validation_loss" \notin DOMAIN th
              THEN [h EXCEPT ![x].training_history = th @@ ("validation_loss" :> <<>>)]
              ELSE h
        history(r) ==
            [heap |-> r.heap, lists |-> r.lists, exc |-> r.exc, partial_fits |-> r.partial_fits,
             ret |-> IF r.exc = "none" THEN Some(r.heap[x].training_history) ELSE Null]
    IN  history(epochs_from(h0, l, x, xs, labels, alpha, epochs, validation_data, batch_size,
                            shuffles, 1, 0))

\* ================================================================ networks
\* A network is put together from its layers in the two ways the
\* constructors and += allow:
\*     net = InputLayer(w1, next_layer=C2(w2, next_layer=...Cj(wj)))
\*     net += Ck(wk)                                  for k = j + 1 .. n
\* kinds[k] is the class and num_outputs of layer k; nested is j.

\* The constructor calls of the first k layers, innermost first; inner is
\* the layer built just before (None at the start).
RECURSIVE Nested(_, _, _, _)
Nested(s, kinds, k, inner) ==
    IF k = 0 THEN s
    ELSE LET c == Construct(s.heap, s.lists, s.counter, kinds[k].cls, kinds[k].num_outputs, "", inner)
         IN  Nested([heap |-> c.heap, lists |-> c.lists, counter |-> c.counter, rng |-> s.rng, exc |-> "none"],
                    kinds, k - 1, Len(c.heap))

\* net += Ck(wk) for layer k and those after it.
RECURSIVE Appended(_, _, _, _)
Appended(s, net, kinds, k) ==
    IF k > Len(kinds) \/ s.exc # "none" THEN s
    ELSE LET c == Construct(s.heap, s.lists, s.counter, kinds[k].cls, kinds[k].num_outputs, "", None)
             a == Layer_iadd(c.heap, c.lists, s.rng, net, Len(c.heap))
         IN  Appended([heap |-> a.heap, lists |-> a.lists, counter |-> c.counter, rng |-> a.rng, exc |-> a.exc],
                      net, kinds, k + 1)

\* The layers a network is given: an InputLayer first and nowhere else, a
\* LossLayer at most as the last; an ActivationLayer and a SoftmaxLayer are
\* as wide as the layer before them (other widths are a dimension
\* mismatch), and a SoftmaxLayer follows a layer of width 1 (see Softmax).
Network(kinds) ==
    /\ kinds[1].cls = "InputLayer"
    /\ \A k \in 2..Len(kinds) :
        /\ kinds[k].cls # "InputLayer"
        /\ kinds[k].cls = "LossLayer" => k = Len(kinds) /\ kinds[k].num_outputs = 1
        /\ kinds[k].cls \in {"ActivationLayer", "SoftmaxLayer"} => kinds[k].num_outputs = kinds[k - 1].num_outputs
        /\ kinds[k].cls = "SoftmaxLayer" => kinds[k - 1].num_outputs = 1

\* The record of a call on a network: the method, the InputLayer, the
\* arguments, the exception raised and the value returned.
Ran(op, x, args, exc, value) ==
    [op |-> op, self |-> x, args |-> args, exc |-> exc, value |-> value]

Build ==
    \E n \in 1..MaxLayers :
        \E kinds \in [1..n -> [cls : Classes, num_outputs : 1..MaxWidth]], nested \in 1..n :
            LET s == [heap |-> heap, lists |-> lists, counter |-> counter, rng |-> rng, exc |-> "none"]
                r == Appended(Nested(s, kinds, nested, None), Len(heap) + nested, kinds, nested + 1)
            IN  /\ ops < MaxOps
                /\ Len(heap) + n <= MaxNodes
                /\ Network(kinds)
                /\ r.exc = "none"
                /\ heap' = r.heap
                /\ lists' = r.lists
                /\ counter' = r.counter
                /\ rng' = r.rng
                /\ result' = Ran("build", Len(heap) + nested, [kinds |-> kinds, nested |-> nested],
                                  "none", [net |-> Len(heap) + nested])
                /\ ops' = ops + 1
                /\ UNCHANGED rest

\* The first thing a program does is build its network.
BuildFirst == heap = <<>> /\ Build

\* -------------------------------------------------------------------- data
\* Feature and label values of the data sets tried.
Vals == {0, 1}

\* An instance of w features, v the first; a label vector of w entries y.
Instance(w, v) == [i \in 1..w |-> v + i - 1]

Label(w, y) == [i \in 1..w |-> y]

\* The width the data of a network headed by x has: the num_outputs of x
\* for the instances and, for the labels, the num_inputs of the tail (1
\* where the tail has none).
LabelWidth(h, x) ==
    LET t == h[Last(Path(h, x))]
    IN  IF t.num_inputs = None THEN 1 ELSE t.num_inputs

\* Lists of k instances, the first features counting up from v.
Instances(w, k) == {[j \in 1..k |-> Instance(w, v + j - 1)] : v \in Vals}

\* Lists of k labels, all alike.
Labels(w, k) == {[j \in 1..k |-> Label(w, y)] : y \in Vals}

\* None, 0 and a rate.
Alphas == {Null, Some(0), Some(Rate)}

\* The InputLayers of the heap: predict, evaluate, partial_fit and fit are
\* theirs alone.
Inputs(h) == {x \in Refs(h) : h[x].cls = "InputLayer"}

\* ------------------------------------------------------------ call actions
\* x(xs), x(xs, labels) and x(xs, labels, alpha=alpha) on no instance or
\* more; labels are None or one per instance.
Call ==
    \E x \in Inputs(heap), k \in 0..MaxInst, alpha \in Alphas :
        \E xs \in Instances(heap[x].num_outputs, k),
           labels \in {Null} \cup {Some(ys) : ys \in Labels(LabelWidth(heap, x), k)} :
            /\ alpha # Null => steps < MaxSteps
            /\ \E r \in {call(heap, lists, x, xs, labels, alpha, {})} :
                /\ r.exc # "NotComputed"
                /\ lists' = r.lists
                /\ steps' = IF alpha # Null THEN steps + 1 ELSE steps
                /\ result' = Ran("call", x, [xs |-> xs, labels |-> labels, alpha |-> alpha], r.exc,
                                 [y_hats |-> r.y_hats, losses |-> r.losses, gradients |-> r.gradients])
                /\ UNCHANGED <<heap, counter, rng, ops, perceptrons>>

\* x.predict(xs)
Predict ==
    \E x \in Inputs(heap), k \in 0..MaxInst :
        \E xs \in Instances(heap[x].num_outputs, k) :
            \E r \in {InputLayer_predict(heap, lists, x, xs)} :
                /\ r.exc # "NotComputed"
                /\ heap' = r.heap
                /\ lists' = r.lists
                /\ result' = Ran("predict", x, [xs |-> xs], r.exc, [y_hats |-> r.ret])
                /\ UNCHANGED <<counter, rng, ops, rest>>

\* x.evaluate(xs, labels) on one instance or more, a label for each.
Evaluate ==
    \E x \in Inputs(heap), k \in 1..MaxInst :
        \E xs \in Instances(heap[x].num_outputs, k), ys \in Labels(LabelWidth(heap, x), k) :
            \E r \in {InputLayer_evaluate(heap, lists, x, xs, Some(ys))} :
                /\ r.exc # "NotComputed"
                /\ heap' = r.heap
                /\ lists' = r.lists
                /\ result' = Ran("evaluate", x, [xs |-> xs, labels |-> Some(ys)], r.exc, [mean |-> r.ret])
                /\ UNCHANGED <<counter, rng, ops, rest>>

\* Calls: a network is built and then called, with and without labels and
\* learning rate.
NextCall == BuildFirst \/ Call

SpecCall == Init /\ [][NextCall]_vars

\* Inference: a network is built and then asked to predict and evaluate.
NextInfer == BuildFirst \/ Predict \/ Evaluate

SpecInfer == Init /\ [][NextInfer]_vars

\* x += cls(num_outputs) on a network headed by an InputLayer x that does
\* not end in a LossLayer yet, with the widths Network allows after its
\* tail.
Extend ==
    \E x \in Inputs(heap), cls \in Classes \ {"InputLayer"}, num_outputs \in 1..MaxWidth :
        LET t == heap[Last(Path(heap, x))]
            c == Construct(heap, lists, counter, cls, num_outputs, "", None)
            r == Layer_iadd(c.heap, c.lists, rng, x, Len(c.heap))
        IN  /\ ops < MaxOps
            /\ Len(heap) < MaxNodes
            /\ t.cls # "LossLayer"
            /\ Network(<<[cls |-> "InputLayer", num_outputs |-> t.num_outputs],
                         [cls |-> cls, num_outputs |-> num_outputs]>>)
            /\ r.exc = "none"
            /\ heap' = r.heap
            /\ lists' = r.lists
            /\ counter' = c.counter
            /\ rng' = r.rng
            /\ result' = Ran("extend", x, [kinds |-> <<[cls |-> cls, num_outputs |-> num_outputs]>>, nested |-> 0],
                             "none", [net |-> x])
            /\ ops' = ops + 1
            /\ UNCHANGED rest

\* Longer networks: a network is built, layers are appended to it and it is
\* asked to predict.
NextDeep == BuildFirst \/ Extend \/ Predict

SpecDeep == Init /\ [][NextDeep]_vars

\* x += LossLayer(): a network without LossLayer is completed with one.
Complete ==
    \E x \in Inputs(heap) :
        \E c \in {Construct(heap, lists, counter, "LossLayer", 1, "", None)} :
            \E r \in {Layer_iadd(c.heap, c.lists, rng, x, Len(c.heap))} :
                /\ ops < MaxOps
                /\ Len(heap) < MaxNodes
                /\ heap[Last(Path(heap, x))].cls # "LossLayer"
                /\ r.exc = "none"
                /\ heap' = r.heap
                /\ lists' = r.lists
                /\ counter' = c.counter
                /\ rng' = r.rng
                /\ result' = Ran("extend", x, [kinds |-> <<[cls |-> "LossLayer", num_outputs |-> 1]>>,
                                              nested |-> 0],
                                 "none", [net |-> x])
                /\ ops' = ops + 1
                /\ UNCHANGED rest

\* x(xs, labels, alpha=Rate): a training call on one instance or more, a
\* label for each.
Train ==
    /\ steps < MaxSteps
    /\ \E x \in Inputs(heap), k \in 1..MaxInst :
        \E xs \in Instances(heap[x].num_outputs, k), ys \in Labels(LabelWidth(heap, x), k) :
            \E r \in {call(heap, lists, x, xs, Some(ys), Some(Rate), {})} :
                /\ r.exc # "NotComputed"
                /\ lists' = r.lists
                /\ steps' = steps + 1
                /\ result' = Ran("call", x, [xs |-> xs, labels |-> Some(ys), alpha |-> Some(Rate)], r.exc,
                                 [y_hats |-> r.y_hats, losses |-> r.losses, gradients |-> r.gradients])
                /\ UNCHANGED <<heap, counter, rng, ops, perceptrons>>

\* Training longer networks: a network is built, completed with a
\* LossLayer and trained by a call.
NextTrain == BuildFirst \/ Complete \/ Train

SpecTrain == Init /\ [][NextTrain]_vars

\* -------------------------------------------------------- training actions
\* The orders shuffle can leave k pairs in.
Orders(k) == {p \in [1..k -> 1..k] : \A i, j \in 1..k : p[i] = p[j] => i = j}

\* batch_size: left out, or one instance a batch.
BatchSizes == {Null, Some(1)}

\* validation_data: left out, or the (instances, labels) pair given.
Validations(xs, ys) == {Null, Some(<<xs, Some(ys)>>)}

\* x.partial_fit(xs, labels, alpha=Rate, validation_data=..., batch_size=...)
\* on one instance or more, with the training data as validation data.
PartialFit ==
    /\ steps < MaxSteps
    /\ \E x \in Inputs(heap), k \in 1..MaxInst, batch_size \in BatchSizes :
        \E xs \in Instances(heap[x].num_outputs, k), ys \in Labels(LabelWidth(heap, x), k) :
            \E validation_data \in Validations(xs, ys) :
                \E r \in {InputLayer_partial_fit(heap, lists, x, xs, Some(ys), Some(Rate),
                                                validation_data, batch_size)} :
                    /\ r.exc # "NotComputed"
                    /\ steps' = steps + 1
                    /\ heap' = r.heap
                    /\ lists' = r.lists
                    /\ result' = Ran("partial_fit", x,
                                     [xs |-> xs, labels |-> Some(ys), alpha |-> Some(Rate),
                                      validation_data |-> validation_data, batch_size |-> batch_size],
                                     r.exc, [ret |-> r.ret])
                    /\ UNCHANGED <<counter, rng, ops, perceptrons>>

\* x.fit(xs, labels, alpha=Rate, epochs=..., validation_data=...,
\* batch_size=...) for 0..MaxEpochs epochs, shuffle leaving any order.
Fit ==
    /\ steps < MaxSteps
    /\ \E x \in Inputs(heap), k \in 1..MaxInst, batch_size \in BatchSizes, epochs \in 0..MaxEpochs :
        \E xs \in Instances(heap[x].num_outputs, k), ys \in Labels(LabelWidth(heap, x), k),
           shuffles \in [1..epochs -> Orders(k)] :
            \E validation_data \in Validations(xs, ys) :
                \E r \in {InputLayer_fit(heap, lists, x, xs, Some(ys), Some(Rate), epochs,
                                        validation_data, batch_size, shuffles)} :
                    /\ r.exc # "NotComputed"
                    /\ steps' = steps + 1
                    /\ heap' = r.heap
                    /\ lists' = r.lists
                    /\ result' = Ran("fit", x,
                                     [xs |-> xs, labels |-> Some(ys), alpha |-> Some(Rate), epochs |-> epochs,
                                      validation_data |-> validation_data, batch_size |-> batch_size,
                                      shuffles |-> shuffles],
                                     r.exc, [history |-> r.ret, partial_fits |-> r.partial_fits])
                    /\ UNCHANGED <<counter, rng, ops, perceptrons>>

\* x.fit(xs, labels, alpha=Rate, epochs=..., batch_size=...) with a label
\* of its own choice for every instance, shuffle leaving any order.
FitPairs ==
    /\ steps < MaxSteps
    /\ \E x \in Inputs(heap), k \in 1..MaxInst, batch_size \in BatchSizes, epochs \in 0..MaxEpochs :
        \E xs \in Instances(heap[x].num_outputs, k),
           ys \in [1..k -> {Label(LabelWidth(heap, x), y) : y \in Vals}],
           shuffles \in [1..epochs -> Orders(k)] :
            \E r \in {InputLayer_fit(heap, lists, x, xs, Some(ys), Some(Rate), epochs, Null,
                                    batch_size, shuffles)} :
                /\ r.exc # "NotComputed"
                /\ steps' = steps + 1
                /\ heap' = r.heap
                /\ lists' = r.lists
                /\ result' = Ran("fit", x,
                                 [xs |-> xs, labels |-> Some(ys), alpha |-> Some(Rate), epochs |-> epochs,
                                  validation_data |-> Null, batch_size |-> batch_size,
                                  shuffles |-> shuffles],
                                 r.exc, [history |-> r.ret, partial_fits |-> r.partial_fits])
                /\ UNCHANGED <<counter, rng, ops, perceptrons>>

\* Shuffled training: a network is built and fitted on labelled pairs.
NextShuffle == BuildFirst \/ FitPairs

SpecShuffle == Init /\ [][NextShuffle]_vars

\* Training: a network is built and then trained, an epoch at a time or by
\* fit.
NextFit == BuildFirst \/ PartialFit \/ Fit

SpecFit == Init /\ [][NextFit]_vars

\* x.partial_fit(xs, labels, alpha=Rate, batch_size=b) with batches of 1
\* and of MaxInst on MaxInst and MaxInst + 1 instances, and with
\* batch_size left out on MaxInst (every batch is of a size that divides
\* Rate).
MiniBatch ==
    /\ steps < MaxSteps
    /\ \E x \in Inputs(heap), k \in {MaxInst, MaxInst + 1},
          batch_size \in {Null, Some(1), Some(MaxInst)} :
        \E xs \in Instances(heap[x].num_outputs, k), ys \in Labels(LabelWidth(heap, x), k) :
            /\ batch_size = Null => k = MaxInst
            /\ \E r \in {InputLayer_partial_fit(heap, lists, x, xs, Some(ys), Some(Rate), Null, batch_size)} :
                /\ r.exc # "NotComputed"
                /\ steps' = steps + 1
                /\ heap' = r.heap
                /\ lists' = r.lists
                /\ result' = Ran("partial_fit", x,
                                 [xs |-> xs, labels |-> Some(ys), alpha |-> Some(Rate),
                                  validation_data |-> Null, batch_size |-> batch_size],
                                 r.exc, [ret |-> r.ret])
                /\ UNCHANGED <<counter, rng, ops, perceptrons>>

\* A network is built whose last layer is not a LossLayer.
BuildOpen == BuildFirst /\ heap'[Last(Path(heap', result'.self))].cls # "LossLayer"

\* Open chains: a network without LossLayer is built and then called, asked
\* to predict and evaluate, and trained for an epoch.
NextOpen == BuildOpen \/ Call \/ Predict \/ Evaluate \/ PartialFit

SpecOpen == Init /\ [][NextOpen]_vars

\* Mini-batches: a network is built and trained for an epoch in batches.
NextBatch == BuildFirst \/ MiniBatch

SpecBatch == Init /\ [][NextBatch]_vars

\* ============================================================== Perceptron
\* Perceptron.__init__
Perceptron_init(dim) ==
    [dim |-> dim, bias |-> 0, weights |-> [i \in 1..dim |-> 0], fitted |-> FALSE]

\* The signum activation of predict: 1.0 if a > 0.0 else -1.0 if a < 0.0
\* else 0.0.
signum(a) == IF a > 0 THEN 1 ELSE IF a < 0 THEN -1 ELSE 0

\* Perceptron.predict
Perceptron_predict(p, xs) ==
    [k \in 1..Len(xs) |-> signum(p.bias + Dot(p.weights, xs[k]))]

\* The instance loop of partial_fit from pair k of zip(xs, ys) on.
RECURSIVE Perceptron_instances(_, _, _, _, _)
Perceptron_instances(p, xs, ys, k, model_updated) ==
    IF k > Min(Len(xs), Len(ys)) THEN [p |-> p, model_updated |-> model_updated]
    ELSE LET x == xs[k]
             error == Perceptron_predict(p, <<x>>)[1] - ys[k]
         IN  IF error # 0
             THEN Perceptron_instances(
                      [p EXCEPT !.bias = p.bias - error,
                                !.weights = [i \in 1..Min(Len(p.weights), Len(x)) |->
                                                p.weights[i] - error * x[i]]],
                      xs, ys, k + 1, TRUE)
             ELSE Perceptron_instances(p, xs, ys, k + 1, model_updated)

\* Mutant: partial_fit sets fitted whether or not the pass updated the
\* model.
partial_fit_always_fitted(p, xs, ys) ==
    [Perceptron_instances(p, xs, ys, 1, FALSE).p EXCEPT !.fitted = TRUE]

\* Perceptron.partial_fit: one pass; fitted is set when it updated nothing.
Perceptron_partial_fit(p, xs, ys) ==
    LET r == Perceptron_instances(p, xs, ys, 1, FALSE)
    IN  IF ~r.model_updated THEN [r.p EXCEPT !.fitted = TRUE] ELSE r.p

\* Mutant: the loop counts its epochs with <=.
keep_going_one_more(p, epochs, epochs_completed) ==
    ~p.fitted /\ (epochs = 0 \/ epochs_completed <= epochs)

\* The condition of the while loop of fit.
keep_going(p, epochs, epochs_completed) ==
    ~p.fitted /\ (epochs = 0 \/ epochs_completed < epochs)

\* The while loop of fit.  seen holds the (bias, weights) the loop has
\* started a pass with: a pass is a function of them and the data, so
\* starting from the same ones again, still not fitted, the loop repeats
\* itself for ever and fit does not return.
RECURSIVE Perceptron_while(_, _, _, _, _, _)
Perceptron_while(p, xs, ys, epochs, epochs_completed, seen) ==
    IF ~keep_going(p, epochs, epochs_completed)
    THEN [p |-> p, epochs_completed |-> epochs_completed, returns |-> TRUE]
    ELSE IF <<p.bias, p.weights>> \in seen /\ epochs = 0
    THEN [p |-> p, epochs_completed |-> epochs_completed, returns |-> FALSE]
    ELSE Perceptron_while(Perceptron_partial_fit(p, xs, ys), xs, ys, epochs, epochs_completed + 1,
                          seen \cup {<<p.bias, p.weights>>})

\* Mutant: fit starts by taking the model for not fitted.
fit_from_not_fitted(p, xs, ys, epochs) ==
    Perceptron_while([p EXCEPT !.fitted = FALSE], xs, ys, epochs, 0, {})

\* Perceptron.fit
Perceptron_fit(p, xs, ys, epochs) == Perceptron_while(p, xs, ys, epochs, 0, {})

\* The dimensions perceptrons are made with.
Dims == {1, 2}

RECURSIVE Power2(_)
Power2(n) == IF n = 0 THEN 1 ELSE 2 * Power2(n - 1)

\* The truth table of dim inputs: every vector of 0s and 1s, counting up;
\* for dim = 2 it is [[0,0],[0,1],[1,0],[1,1]].
TruthTable(dim) ==
    [r \in 1..Power2(dim) |-> [i \in 1..dim |-> ((r - 1) \div Power2(dim - i)) % 2]]

\* The target lists of the gates of dim inputs, -1 for false and 1 for true.
Targets(dim) == [1..Power2(dim) -> {-1, 1}]

\* The targets of the AND gate of two inputs.
AndGate == <<-1, -1, -1, 1>>

\* What a call on a perceptron gave: whether it returned, the passes fit
\* made and the list predict returned.
Gave(returns, passes, predictions) ==
    [returns |-> returns, passes |-> passes, predictions |-> predictions]

\* A fit that does not return leaves the program in its loop.
Running == result.exc # "NeverReturns"

\* Perceptron(dim=dim)
PerceptronNew ==
    \E dim \in Dims :
        /\ perceptrons = <<>>
        /\ ops < MaxOps
        /\ perceptrons' = <<Perceptron_init(dim)>>
        /\ ops' = ops + 1
        /\ result' = Ran("Perceptron", 1, [dim |-> dim], "none", Gave(TRUE, 0, <<>>))
        /\ UNCHANGED <<heap, lists, counter, rng, steps>>

\* p.predict(xs) on the truth table.
PerceptronPredict ==
    \E i \in 1..Len(perceptrons) :
        LET xs == TruthTable(perceptrons[i].dim)
        IN  /\ Running
            /\ result' = Ran("Perceptron.predict", i, [xs |-> xs], "none",
                             Gave(TRUE, 0, Perceptron_predict(perceptrons[i], xs)))
            /\ UNCHANGED <<heap, lists, counter, rng, ops, steps, perceptrons>>

\* p.partial_fit(xs, ys) on the truth table and the targets of a gate.
PerceptronPartialFit ==
    \E i \in 1..Len(perceptrons) :
        \E ys \in Targets(perceptrons[i].dim) :
            LET xs == TruthTable(perceptrons[i].dim)
            IN  /\ Running
                /\ ops < MaxOps
                /\ ops' = ops + 1
                /\ perceptrons' = [perceptrons EXCEPT ![i] = Perceptron_partial_fit(@, xs, ys)]
                /\ result' = Ran("Perceptron.partial_fit", i, [xs |-> xs, ys |-> ys], "none",
                                 Gave(TRUE, 1, <<>>))
                /\ UNCHANGED <<heap, lists, counter, rng, steps>>

\* p.fit(xs, ys, epochs=epochs) on the truth table and the targets of a
\* gate.
PerceptronFit ==
    \E i \in 1..Len(perceptrons), epochs \in 0..MaxEpochs :
        \E ys \in Targets(perceptrons[i].dim) :
            LET xs == TruthTable(perceptrons[i].dim)
                r == Perceptron_fit(perceptrons[i], xs, ys, epochs)
            IN  /\ Running
                /\ ops < MaxOps
                /\ ops' = ops + 1
                /\ perceptrons' = [perceptrons EXCEPT ![i] = r.p]
                /\ result' = Ran("Perceptron.fit", i, [xs |-> xs, ys |-> ys, epochs |-> epochs],
                                 IF r.returns THEN "none" ELSE "NeverReturns",
                                 Gave(r.returns, r.epochs_completed, <<>>))
                /\ UNCHANGED <<heap, lists, counter, rng, steps>>

\* A perceptron is made, fitted and asked to predict.
NextPerceptron == PerceptronNew \/ PerceptronPredict \/ PerceptronPartialFit \/ PerceptronFit

SpecPerceptron == Init /\ [][NextPerceptron]_vars

\* ========================================= softmax and the guarded logarithm
\* math.exp on whole numbers, in Units: e is 2718 / 1000.  Below 0 the
\* value shrinks until it underflows to 0.0; above 0 it grows until it no
\* longer fits a float (and is not computed further).
RECURSIVE exp(_)
exp(d) ==
    IF d = 0 THEN Unit
    ELSE IF d < 0 THEN (exp(d + 1) * 1000) \div 2718
    ELSE IF exp(d - 1) > Largest THEN exp(d - 1)
    ELSE (exp(d - 1) * 2718) \div 1000

\* max(instance_vector) of a vector that is not empty.
RECURSIVE max(_)
max(s) == IF Len(s) = 1 THEN s[1] ELSE IF s[1] >= max(Tail(s)) THEN s[1] ELSE max(Tail(s))

\* Mutant: the exponents are the entries themselves.
not_shifted(instance_vector) == instance_vector

\* x - max_value for every x of the instance.
shifted(instance_vector) ==
    [i \in 1..Len(instance_vector) |-> instance_vector[i] - max(instance_vector)]

\* The softmax of one instance as SoftmaxLayer.__call__ computes it:
\* max of an empty vector is a ValueError, math.exp of too large a number
\* an OverflowError ("math range error"), a sum of 0.0 a
\* ZeroDivisionError.
SoftmaxLayer_y_hat(instance_vector) ==
    IF instance_vector = <<>> THEN [exc |-> "ValueError", y_hat |-> <<>>]
    ELSE IF \E i \in 1..Len(instance_vector) : exp(shifted(instance_vector)[i]) > Largest
    THEN [exc |-> "OverflowError", y_hat |-> <<>>]
    ELSE LET euler_vector == [i \in 1..Len(instance_vector) |-> exp(shifted(instance_vector)[i])]
             euler_output_sum == sum(euler_vector)
         IN  IF euler_output_sum = 0 THEN [exc |-> "ZeroDivisionError", y_hat |-> <<>>]
             ELSE [exc |-> "none",
                   y_hat |-> [i \in 1..Len(instance_vector) |->
                                 (euler_vector[i] * Unit) \div euler_output_sum]]

\* The entries of the vectors softmax is asked for: small ones and ones
\* Far from them on either side.
SoftmaxVals == {-Far, -1, 0, 1, Far}

\* The vectors of up to MaxClasses entries.
SoftmaxVectors == UNION {[1..n -> SoftmaxVals] : n \in 0..MaxClasses}

\* The softmax of lines 61-68 on one instance.
SoftmaxForward ==
    \E instance_vector \in SoftmaxVectors :
        \E r \in {SoftmaxLayer_y_hat(instance_vector)} :
            /\ result' = Ran("softmax", None, [instance_vector |-> instance_vector], r.exc,
                             [y_hat |-> r.y_hat])
            /\ UNCHANGED <<heap, lists, counter, rng, ops, steps, perceptrons>>

SpecSoftmax == Init /\ [][SoftmaxForward]_vars

\* ------------------------------------------------- the guarded logarithm
\* x as m * 2^k with 1.0 <= m < 2.0, for x > 0.
RECURSIVE frexp(_, _)
frexp(m, k) ==
    IF m < Unit THEN frexp(2 * m, k - 1)
    ELSE IF m >= 2 * Unit THEN frexp(m \div 2, k + 1)
    ELSE <<m, k>>

\* What a function of one number hands back: the exception raised or the
\* number returned.
Number(value) == [exc |-> "none", value |-> value]

Undefined(exc) == [exc |-> exc, value |-> 0]

\* math.log: a ValueError ("math domain error") at 0 and below; above,
\* k ln 2 + ln m with ln m = 2 (z + z^3 / 3), z = (m - 1) / (m + 1), in
\* Units.
log(x) ==
    IF x <= 0 THEN Undefined("ValueError")
    ELSE LET m == frexp(x, 0)[1]
             k == frexp(x, 0)[2]
             z == ((m - Unit) * Unit) \div (m + Unit)
             z3 == (((z * z) \div Unit) * z) \div Unit
         IN  Number(k * ((6931 * Unit) \div 10000) + 2 * z + (2 * z3) \div 3)

\* The default of the keyword argument epsilon, 0.0001.
epsilon == Unit \div 10000

\* Mutant: the logarithm without its guard.
unguarded_log(x) == log(x)

\* pseudo_log(x): below epsilon the line through (epsilon, log(epsilon))
\* of slope 1 / epsilon, from epsilon on the logarithm.
pseudo_log(x) ==
    IF x < epsilon
    THEN IF log(epsilon).exc # "none" THEN log(epsilon)
         ELSE Number(log(epsilon).value + ((x - epsilon) * Unit) \div epsilon)
    ELSE log(x)

\* binary_crossentropy(yhat, y), y a whole number:
\* -y * pseudo_log(yhat) - (1 - y) * pseudo_log(1 - yhat)
binary_crossentropy(yhat, y) ==
    IF pseudo_log(yhat).exc # "none" THEN pseudo_log(yhat)
    ELSE IF pseudo_log(Unit - yhat).exc # "none" THEN pseudo_log(Unit - yhat)
    ELSE Number(-y * pseudo_log(yhat).value - (1 - y) * pseudo_log(Unit - yhat).value)

\* categorical_crossentropy(yhat, y): -y * pseudo_log(yhat)
categorical_crossentropy(yhat, y) ==
    IF pseudo_log(yhat).exc # "none" THEN pseudo_log(yhat)
    ELSE Number(-y * pseudo_log(yhat).value)

\* The arguments of the logarithm: around 0, around 1.0 and beyond on
\* either side.
LogArguments ==
    (-Near..Near) \cup {-2 * Unit, -Unit, Unit \div 2, Unit - 1, Unit, Unit + 1, 2 * Unit}

\* pseudo_log(x)
PseudoLog ==
    \E x \in LogArguments :
        \E r \in {pseudo_log(x)} :
            /\ result' = Ran("pseudo_log", None, [x |-> x], r.exc, [number |-> r.value])
            /\ UNCHANGED <<heap, lists, counter, rng, ops, steps, perceptrons>>

\* binary_crossentropy(yhat, y) and categorical_crossentropy(yhat, y) for
\* the labels 0 and 1.
CrossEntropy ==
    \E yhat \in LogArguments, y \in {0, 1}, loss \in {"binary_crossentropy", "categorical_crossentropy"} :
        \E r \in {IF loss = "binary_crossentropy" THEN binary_crossentropy(yhat, y)
                   ELSE categorical_crossentropy(yhat, y)} :
            /\ result' = Ran(loss, None, [yhat |-> yhat, y |-> y], r.exc, [number |-> r.value])
            /\ UNCHANGED <<heap, lists, counter, rng, ops, steps, perceptrons>>

NextLog == PseudoLog \/ CrossEntropy

SpecLog == Init /\ [][NextLog]_vars

\* ================================================================= claims
\* The step just taken was operation op (every step writes result).
Did(op) == result'.op = op

\* Every object of the pre-state is the same in the post-state.
OldObjectsUnchanged ==
    /\ \A v \in Refs(heap) : heap'[v] = heap[v]
    /\ \A k \in 1..Len(lists) : lists'[k] = lists[k]

\* C1: a + b returns a chain whose nodes and weight/bias lists are all new
\* objects, shared with no object that existed before, and leaves every
\* existing object (a, b and the rest of the heap) exactly as it was.
C1_PlusIndependent ==
    [][Did("plus") =>
        /\ OldObjectsUnchanged
        /\ result'.exc = "none" =>
             LET p == Path(heap', result'.ret)
             IN  /\ Range(p) \cap Refs(heap) = {}
                 /\ ListsOf(heap', p) \cap (1..Len(lists)) = {}
                 /\ Len(p) = Len(Path(heap, result'.self)) + Len(Path(heap, result'.arg))
      ]_vars

\* C1 witness: a + b returned, a was a chain of two or more nodes and the
\* result holds a Dense node with weights.
C1_Witness ==
    /\ result.op = "plus"
    /\ result.exc = "none"
    /\ Len(Path(heap, result.self)) >= 2
    /\ \E v \in Range(Path(heap, result.ret)) : heap[v].weights # None

\* The chain headed by x ends in a LossLayer.
LossTail(h, x) == h[Last(Path(h, x))].cls = "LossLayer"

\* C2: appending after a chain whose tail is a LossLayer, by += (add) or
\* by +, raises TypeError and changes no object.
C2_AppendAfterLoss ==
    [][(Did("iadd") \/ Did("plus")) /\ LossTail(heap, result'.self) =>
        /\ result'.exc = "TypeError"
        /\ heap' = heap
        /\ lists' = lists
      ]_vars

\* C2 witness: += on a chain of two or more nodes ending in a LossLayer
\* raised TypeError.
C2_Witness ==
    /\ result.op = "iadd"
    /\ result.exc = "TypeError"
    /\ Len(Path(heap, result.self)) >= 2
    /\ LossTail(heap, result.self)
    /\ heap[result.arg].cls # "InputLayer"

\* C3 (as claimed): attaching an InputLayer after a chain by += (add)
\* raises TypeError and leaves every successor link as it was.
C3_InputRejectedWhole ==
    [][Did("iadd") /\ heap[result'.arg].cls = "InputLayer" /\ ~Cyclic(heap, result'.self) =>
        /\ result'.exc = "TypeError"
        /\ \A v \in Refs(heap) : heap'[v].next_layer = heap[v].next_layer
      ]_vars

\* After z = a + b: the node of operand chain a or b that the node at
\* position i of z was copied from.
SourceOf(h, op, i) ==
    LET pa == Path(h, op.self)
        pb == Path(h, op.arg)
    IN  IF i <= Len(pa) THEN pa[i] ELSE pb[i - Len(pa)]

\* Node c holds weights equal, entry by entry, to those of node v, in a
\* list object of its own.
SameWeightsApart(h, l, c, v) ==
    /\ h[c].weights # None
    /\ h[c].weights # h[v].weights
    /\ l[h[c].weights] = l[h[v].weights]

\* C4 (as claimed): when a + b returns, every Dense node of a or b that had
\* weights has them, equal and in a distinct list, at its copy in the
\* result.
C4_AllWeightsPreserved ==
    result.op = "plus" /\ result.exc = "none" =>
        LET p == Path(heap, result.ret)
        IN  \A i \in 1..Len(p) :
                heap[SourceOf(heap, result, i)].weights # None =>
                    SameWeightsApart(heap, lists, p[i], SourceOf(heap, result, i))

\* C4 (amended): when a + b returns, every Dense node of a, and every
\* Dense node of b other than b's head, that had weights has them, equal
\* and in a distinct list, at its copy in the result; the copy of b's
\* head, if Dense, holds a newly drawn matrix of num_outputs rows of
\* (num_outputs of a's tail) entries, in a list of its own.
C4_WeightsPreservedButHead ==
    result.op = "plus" /\ result.exc = "none" =>
        LET p == Path(heap, result.ret)
            na == Len(Path(heap, result.self))
        IN  \A i \in 1..Len(p) :
                LET v == SourceOf(heap, result, i)
                IN  IF i # na + 1
                    THEN heap[v].weights # None => SameWeightsApart(heap, lists, p[i], v)
                    ELSE heap[p[i]].cls = "DenseLayer" =>
                            /\ heap[p[i]].weights # None
                            /\ heap[p[i]].weights # heap[v].weights
                            /\ Len(lists[heap[p[i]].weights]) = heap[p[i]].num_outputs
                            /\ \A o \in 1..heap[p[i]].num_outputs :
                                   Len(lists[heap[p[i]].weights][o]) = heap[p[na]].num_outputs

\* C4 witness: a + b returned where a holds a Dense node with weights and
\* b holds one that is not its head.
C4_Witness ==
    /\ result.op = "plus"
    /\ result.exc = "none"
    /\ \E v \in Range(Path(heap, result.self)) : heap[v].weights # None
    /\ LET pb == Path(heap, result.arg)
       IN  \E j \in 2..Len(pb) : heap[pb[j]].weights # None

\* C5 (as claimed): in every chain headed by an InputLayer, the head has
\* no num_inputs and no later node is an InputLayer.
C5_OneInputAtHead ==
    \A x \in Refs(heap) :
        heap[x].cls = "InputLayer" =>
            LET p == Path(heap, x)
            IN  /\ heap[x].num_inputs = None
                /\ \A i \in 2..Len(p) : heap[p[i]].cls # "InputLayer"

\* C6: a LossLayer never has a successor, so a chain, whichever node it
\* is entered at, holds at most one LossLayer, and only as its tail.
C6_LossOnlyAtTail ==
    \A x \in Refs(heap) :
        LET p == Path(heap, x)
        IN  \A i \in 1..Len(p) :
                heap[p[i]].cls = "LossLayer" =>
                    /\ i = Len(p)
                    /\ heap[p[i]].next_layer = None
                    /\ \A j \in 1..Len(p) : heap[p[j]].cls = "LossLayer" => j = i

\* C6 witness: an append after a chain of two or more nodes that ends in
\* a LossLayer has been attempted.
C6_Witness ==
    /\ result.op \in {"iadd", "plus"}
    /\ Len(Path(heap, result.self)) >= 2
    /\ LossTail(heap, result.self)
    /\ heap[result.arg].cls = "LossLayer"

\* C7 (as claimed): in every chain, each node after the head has
\* num_inputs equal to its predecessor's num_outputs.
C7_WidthsPropagated ==
    \A x \in Refs(heap) :
        LET p == Path(heap, x)
        IN  \A k \in 2..Len(p) : heap[p[k]].num_inputs = heap[p[k - 1]].num_outputs

\* C8 (as claimed): following next_layer from any node reaches None
\* without meeting a node twice.
C8_Acyclic ==
    \A x \in Refs(heap) : ~Cyclic(heap, x)

\* C9 (as claimed): no two nodes of a chain have the same name.
C9_NamesUnique ==
    \A x \in Refs(heap) :
        LET p == Path(heap, x)
        IN  \A i \in 1..Len(p) : \A j \in 1..Len(p) :
                heap[p[i]].name = heap[p[j]].name => i = j

\* C10 (as claimed): chain[i] with 0 <= i < len(chain) returns the node at
\* position i and raises IndexError when the chain ends before position
\* i; chain[name] returns a node of the chain with that name and raises
\* KeyError when the chain has none.
C10_LookupContract ==
    result.op = "getitem" =>
        LET p == Path(heap, result.self)
            index == result.index
            named == {v \in Range(p) : heap[v].name = index.s}
        IN  /\ index.t = "int" /\ 0 <= index.i /\ index.i < Len(p) =>
                result.exc = "none" /\ result.ret = p[index.i + 1]
            /\ index.t = "int" /\ index.i >= Len(p) /\ ~Cyclic(heap, result.self) =>
                result.exc = "IndexError"
            /\ index.t = "str" /\ named # {} =>
                result.exc = "none" /\ result.ret \in named
            /\ index.t = "str" /\ named = {} =>
                result.exc = "KeyError"

\* The sum over the units of a prediction of loss_fn(prediction[unit],
\* label[unit]).
LossOf(prediction, label) ==
    sum([u \in 1..Len(prediction) |-> mean_squared_error(prediction[u], label[u])])

\* C11 (as claimed): a call of a network that ends in a LossLayer returns,
\* without labels and learning rate, (predictions, None, None), and with
\* labels and no learning rate (predictions, losses, None) where losses
\* has one entry per instance, the sum over the units of the prediction
\* of the loss of the unit against its label.
C11_ThreeWayReturn ==
    result.op = "call" /\ LossTail(heap, result.self) /\ result.args.alpha = Null =>
        LET a == result.args
            r == result.value
        IN  /\ result.exc = "none"
            /\ Len(r.y_hats) = Len(a.xs)
            /\ r.gradients = Null
            /\ a.labels = Null => r.losses = Null
            /\ a.labels # Null =>
                /\ r.losses # Null
                /\ Len(r.losses[1]) = Len(a.xs)
                /\ \A j \in 1..Len(a.xs) :
                       /\ Len(a.labels[1][j]) = Len(r.y_hats[j])
                       /\ r.losses[1][j] = LossOf(r.y_hats[j], a.labels[1][j])

\* C12 (as claimed): a call with labels for at least one instance that
\* returns, on a network that ends in a LossLayer, has the per-instance
\* gradient list as its third element whenever the learning rate is not
\* None, whatever its value, and has None as its third element, with no
\* weight or bias written, only when the learning rate is None.
C12_BackwardIffRate ==
    [][/\ Did("call") /\ LossTail(heap, result'.self) /\ result'.exc = "none"
       /\ ~NotLabels(result'.args.labels)
       => /\ result'.args.alpha = Null => result'.value.gradients = Null /\ lists' = lists
          /\ result'.args.alpha # Null =>
                /\ result'.value.gradients # Null
                /\ Len(result'.value.gradients[1]) = Len(result'.args.xs)
      ]_vars

\* C13: predict and evaluate change nothing: every node (links, widths,
\* training_history) and every weight and bias list is after the call what
\* it was before, whether the call returns or raises.
C13_InferencePure ==
    [][Did("predict") \/ Did("evaluate") => heap' = heap /\ lists' = lists]_vars

\* An evaluate has returned a mean loss for a network with a DenseLayer
\* that has its weights.
C13_Witness ==
    /\ result.op = "evaluate"
    /\ result.exc = "none"
    /\ result.value.mean # Null
    /\ \E v \in Range(Path(heap, result.self)) : heap[v].cls = "DenseLayer" /\ heap[v].weights # None

\* The sequence a training_history holds under key, empty when it has no
\* such key.
History(th, key) == IF key \in DOMAIN th THEN th[key] ELSE <<>>

\* Sequence t is sequence s with n entries appended.
GrownBy(s, t, n) == Len(t) = Len(s) + n /\ SubSeq(t, 1, Len(s)) = s

\* What C14 says of a fit on x with arguments a that led from history th to
\* history th2, made calls partial_fit calls and ended with exc and value.
FitContract(a, th, th2, exc, value) ==
    /\ exc = "none"
    /\ value.partial_fits = a.epochs
    /\ value.history = Some(th2)
    /\ GrownBy(th["loss"], th2["loss"], a.epochs)
    /\ a.validation_data # Null =>
            GrownBy(History(th, "validation_loss"), History(th2, "validation_loss"), a.epochs)

\* C14 (as claimed): on a network that ends in a LossLayer,
\* fit(xs, labels, epochs=n) calls partial_fit n times
\* and returns training_history with n entries appended to "loss" and,
\* with validation_data, n entries appended to "validation_loss"; with
\* n = 0 no weight, no bias and no history entry changes.
C14_FitOncePerEpoch ==
    [][Did("fit") /\ LossTail(heap, result'.self) =>
        /\ FitContract(result'.args, heap[result'.self].training_history,
                       heap'[result'.self].training_history, result'.exc, result'.value)
        /\ result'.args.epochs = 0 =>
            /\ lists' = lists
            /\ \A key \in {"loss", "validation_loss"} :
                  History(heap'[result'.self].training_history, key)
                      = History(heap[result'.self].training_history, key)
      ]_vars

\* C15 (as claimed): a partial_fit with validation_data, called directly
\* or by fit, that has trained its epoch (its mean loss is appended under
\* "loss") returns with the validation loss appended under
\* "validation_loss": as many new entries there as under "loss", the last
\* of them what evaluate gives for the validation data afterwards.
C15_ValidationLossStored ==
    [][/\ Did("partial_fit") \/ Did("fit")
       /\ result'.args.validation_data # Null
       /\ Len(heap'[result'.self].training_history["loss"])
              > Len(heap[result'.self].training_history["loss"])
       => LET x == result'.self
              th == heap[x].training_history
              th2 == heap'[x].training_history
              v == result'.args.validation_data[1]
              vl == History(th2, "validation_loss")
          IN  /\ result'.exc = "none"
              /\ GrownBy(History(th, "validation_loss"), vl, Len(th2["loss"]) - Len(th["loss"]))
              /\ Some(vl[Len(vl)]) = InputLayer_evaluate(heap', lists', x, v[1], v[2]).ret
      ]_vars

\* C16: fit with the default epochs=0 of a newly made Perceptron(dim=2) on
\* the truth table of two inputs and the targets of the AND gate returns,
\* with fitted True, and predict on the truth table then gives the targets.
C16_AndGateFitted ==
    [][/\ Did("Perceptron.fit")
       /\ perceptrons[result'.self] = Perceptron_init(2)
       /\ result'.args.ys = AndGate
       /\ result'.args.epochs = 0
       => /\ result'.args.xs = <<<<0, 0>>, <<0, 1>>, <<1, 0>>, <<1, 1>>>>
          /\ result'.value.returns
          /\ perceptrons'[result'.self].fitted
          /\ Perceptron_predict(perceptrons'[result'.self], result'.args.xs) = AndGate
      ]_vars

\* The first call on a perceptron of two inputs was fit with epochs=0 on
\* the AND gate, and it took more than one pass.
C16_Witness ==
    /\ result.op = "Perceptron.fit"
    /\ ops = 2
    /\ perceptrons[result.self].dim = 2
    /\ result.args.ys = AndGate
    /\ result.args.epochs = 0
    /\ result.value.passes > 1

\* The perceptron p is after j calls of partial_fit(xs, ys).
RECURSIVE Passes(_, _, _, _)
Passes(p, xs, ys, j) == IF j = 0 THEN p ELSE Perceptron_partial_fit(Passes(p, xs, ys, j - 1), xs, ys)

\* C17: fit leaves the perceptron as its passes of partial_fit leave it and
\* makes no pass once fitted is True; with epochs=0 it returns only with
\* fitted True, and with epochs=n > 0 it returns after at most n passes,
\* after fewer only with fitted True.
C17_FitEpochs ==
    [][Did("Perceptron.fit") =>
        LET a == result'.args
            p == perceptrons[result'.self]
            q == perceptrons'[result'.self]
            n == result'.value.passes
        IN  /\ q = Passes(p, a.xs, a.ys, n)
            /\ \A j \in 0..(n - 1) : ~Passes(p, a.xs, a.ys, j).fitted
            /\ a.epochs = 0 => (result'.value.returns => q.fitted)
            /\ a.epochs > 0 =>
                /\ result'.value.returns
                /\ n <= a.epochs
                /\ n < a.epochs => q.fitted
      ]_vars

\* A fit with epochs=n > 0 has stopped before its n-th pass, after one
\* pass or more, fitted.
C17_Witness ==
    /\ result.op = "Perceptron.fit"
    /\ result.args.epochs > 0
    /\ result.value.passes > 0
    /\ result.value.passes < result.args.epochs
    /\ perceptrons[result.self].fitted

\* C18 (as claimed): a += that returns has linked the new node after the
\* tail of the chain and given it the tail's num_outputs as num_inputs
\* (with a weight matrix of that width if it is a DenseLayer); the nodes
\* before the tail and all lists are as they were, the tail differs in
\* its link alone, the head returned is the same object, and the chain is
\* the old chain followed by the chain of the new node.
C18_AppendInPlace ==
    [][Did("iadd") /\ result'.exc = "none" =>
        LET x == result'.self
            y == result'.arg
            p == Path(heap, x)
            t == Last(p)
        IN  /\ result'.ret = x
            /\ heap'[t].next_layer = y
            /\ heap'[y].num_inputs = heap[t].num_outputs
            /\ heap[y].cls = "DenseLayer" =>
                  /\ heap'[y].weights # None
                  /\ \A o \in 1..heap[y].num_outputs :
                         Len(lists'[heap'[y].weights][o]) = heap[t].num_outputs
            /\ \A i \in 1..(Len(p) - 1) : heap'[p[i]] = heap[p[i]]
            /\ heap'[t] = [heap[t] EXCEPT !.next_layer = y]
            /\ \A k \in 1..Len(lists) : lists'[k] = lists[k]
            /\ Path(heap', x) = p \o Path(heap, y)
      ]_vars

\* C19 (as claimed): a constructor leaves num_inputs unset, and a += of
\* a node from outside the chain that returns assigns num_inputs to that
\* node alone and for the first time: the node had none before, and every
\* other node keeps its num_inputs and its weight matrix.
C19_InputsAssignedOnce ==
    [][/\ Did("new") => heap'[result'.ret].num_inputs = None
       /\ /\ Did("iadd")
          /\ result'.exc = "none"
          /\ Range(Path(heap, result'.self)) \cap Range(Path(heap, result'.arg)) = {}
          => /\ heap[result'.arg].num_inputs = None
             /\ \A v \in Refs(heap) \ {result'.arg} :
                    heap'[v].num_inputs = heap[v].num_inputs /\ heap'[v].weights = heap[v].weights
      ]_vars

\* Every node after the head x has its num_inputs.
WidthsSet(h, x) == \A v \in Range(Path(h, x)) \ {x} : h[v].num_inputs # None

\* The DenseLayer v holds num_outputs rows of num_inputs weights and
\* num_outputs biases.
Shaped(h, l, v) ==
    /\ h[v].weights # None
    /\ Len(l[h[v].weights]) = h[v].num_outputs
    /\ \A o \in 1..h[v].num_outputs : Len(l[h[v].weights][o]) = h[v].num_inputs
    /\ Len(l[h[v].biases]) = h[v].num_outputs

\* C20 (as claimed): every DenseLayer that has its num_inputs n holds m
\* rows of n weights and m biases, m its num_outputs; and predict on k
\* instances, on a network with all widths set that ends in a DenseLayer
\* of m outputs and a LossLayer, returns k vectors of m entries.
C20_ShapeInvariant ==
    /\ \A v \in Refs(heap) :
            heap[v].cls = "DenseLayer" /\ heap[v].num_inputs # None => Shaped(heap, lists, v)
    /\ result.op = "predict" /\ WidthsSet(heap, result.self) /\ LossTail(heap, result.self) =>
            LET p == Path(heap, result.self)
                d == p[Len(p) - 1]
                y_hats == result.value.y_hats
            IN  heap[d].cls = "DenseLayer" =>
                    /\ result.exc = "none"
                    /\ Len(y_hats) = Len(result.args.xs)
                    /\ \A k \in 1..Len(y_hats) : Len(y_hats[k]) = heap[d].num_outputs

\* C21: the softmax of a vector that is not empty, entries of large
\* magnitude included, raises nothing and is a distribution: every entry
\* lies in [0, 1] and the entries sum to 1.0 within the rounding of one
\* division per entry.
C21_SoftmaxDistribution ==
    result.op = "softmax" /\ result.args.instance_vector # <<>> =>
        /\ result.exc = "none"
        /\ \A i \in 1..Len(result.value.y_hat) : result.value.y_hat[i] \in 0..Unit
        /\ Len(result.value.y_hat) = Len(result.args.instance_vector)
        /\ sum(result.value.y_hat) \in (Unit - Len(result.value.y_hat))..Unit

\* A softmax has been taken of a vector with an entry of Far, whose exp
\* does not fit a float, and one so far below it that its exp underflows.
C21_Witness ==
    /\ result.op = "softmax"
    /\ result.exc = "none"
    /\ exp(Far) > Largest
    /\ \E i, j \in 1..Len(result.args.instance_vector) :
        /\ result.args.instance_vector[i] = Far
        /\ result.args.instance_vector[j] = -Far
        /\ result.value.y_hat[j] = 0
        /\ result.value.y_hat[i] > 0

Trained ==
    /\ Did("call")
    /\ result'.exc = "none"
    /\ ~NotLabels(result'.args.labels)
    /\ ~NotAlpha(result'.args.alpha)

\* xs with d added to feature i of every instance.
Nudged(xs, i, d) == [k \in 1..Len(xs) |-> [xs[k] EXCEPT ![i] = @ + d]]

\* C23: in a training call every forward computation and every gradient
\* handed back reads the weights as they were before the call: the
\* predictions and losses returned are those of a call without learning
\* rate on the network as it was, and the gradients returned are the
\* derivative of the loss by the inputs under those weights (for these
\* losses the central difference (f(x + 1) - f(x - 1)) / 2 exactly).
C23_PreUpdateWeights ==
    [][Trained =>
        \E x \in {result'.self}, xs \in {result'.args.xs}, labels \in {result'.args.labels},
           gradients \in {result'.value.gradients[1]} :
            \E forward \in {call(heap, lists, x, xs, labels, Null, {})} :
                /\ forward.exc = "none"
                /\ result'.value.y_hats = forward.y_hats
                /\ result'.value.losses = forward.losses
                /\ Len(gradients) = Len(xs)
                /\ \A k \in 1..Len(xs) : Len(gradients[k]) = Len(xs[1]) /\ Len(xs[k]) = Len(xs[1])
                /\ \A i \in 1..Len(xs[1]) :
                    \E above \in {Nudged(xs, i, 1)}, below \in {Nudged(xs, i, -1)} :
                        \E up \in {call(heap, lists, x, above, labels, Null, {})},
                           down \in {call(heap, lists, x, below, labels, Null, {})} :
                            \A k \in 1..Len(xs) :
                                2 * gradients[k][i] = up.losses[1][k] - down.losses[1][k]
      ]_vars

\* A training call has returned gradients that are not all 0 from a
\* network with two DenseLayers or more.
C23_Witness ==
    /\ result.op = "call"
    /\ result.exc = "none"
    /\ result.args.alpha = Some(Rate)
    /\ result.value.gradients # Null
    /\ \E k \in 1..Len(result.value.gradients[1]) :
        \E i \in 1..Len(result.value.gradients[1][k]) : result.value.gradients[1][k][i] # 0
    /\ Cardinality({v \in Range(Path(heap, result.self)) :
                       heap[v].cls = "DenseLayer" /\ heap[v].weights # None}) >= 2

\* What node v hands forward for the instances xs under the lists l.
Forward(h, l, v, xs) ==
    CASE h[v].cls = "DenseLayer" ->
             [k \in 1..Len(xs) |-> [o \in 1..h[v].num_outputs |->
                 l[h[v].biases][o] + sum([i \in 1..h[v].num_inputs |-> l[h[v].weights][o][i] * xs[k][i]])]]
      [] h[v].cls = "ActivationLayer" -> [k \in 1..Len(xs) |-> [o \in 1..h[v].num_outputs |-> xs[k][o]]]
      [] h[v].cls = "SoftmaxLayer" -> [k \in 1..Len(xs) |-> Softmax(xs[k])]
      [] OTHER -> xs

\* What reaches the p-th node of path when xs is handed to the first.
RECURSIVE InputTo(_, _, _, _, _)
InputTo(h, l, path, p, xs) ==
    IF p = 1 THEN xs ELSE Forward(h, l, path[p - 1], InputTo(h, l, path, p - 1, xs))

\* C24: after a training call on k instances with learning rate alpha,
\* every DenseLayer of the chain holds, in the lists it held before,
\* weight[o][i] - (alpha / k) * sum of g_out[o] * x[i] over the instances
\* and bias[o] - (alpha / k) * sum of g_out[o], where x is what reached the
\* layer and g_out the gradients its successor handed back.
C24_BatchAveragedUpdate ==
    [][Trained =>
        \E path \in {Path(heap, result'.self)}, xs \in {result'.args.xs}, alpha \in {result'.args.alpha[1]} :
            \A p \in 1..Len(path) :
                heap[path[p]].cls = "DenseLayer" =>
                    \E d \in {heap[path[p]]}, x \in {InputTo(heap, lists, path, p, xs)} :
                        \E s \in {call(heap, lists, d.next_layer, Forward(heap, lists, path[p], x),
                                       result'.args.labels, result'.args.alpha, {})} :
                            \E g_out \in {s.gradients[1]}, k \in {Len(xs)} :
                                /\ heap'[path[p]].weights = d.weights
                                /\ heap'[path[p]].biases = d.biases
                                /\ \A o \in 1..d.num_outputs :
                                    /\ k * lists'[d.biases][o] =
                                           k * lists[d.biases][o] - alpha * sum([j \in 1..k |-> g_out[j][o]])
                                    /\ \A i \in 1..d.num_inputs :
                                        k * lists'[d.weights][o][i] =
                                            k * lists[d.weights][o][i]
                                                - alpha * sum([j \in 1..k |-> g_out[j][o] * x[j][i]])
      ]_vars

\* A training call on two instances or more has returned and changed a
\* weight of a DenseLayer that is not the last of its chain.
C24_Witness ==
    /\ result.op = "call"
    /\ result.exc = "none"
    /\ result.args.alpha = Some(Rate)
    /\ result.args.labels # Null
    /\ Len(result.args.xs) >= 2
    /\ \E p \in 1..Len(Path(heap, result.self)) :
        \E v \in {Path(heap, result.self)[p]} :
            /\ heap[v].cls = "DenseLayer"
            /\ \E q \in (p + 1)..Len(Path(heap, result.self)) :
                   heap[Path(heap, result.self)[q]].cls = "DenseLayer"
            /\ \E k \in 1..Len(result.value.gradients[1]) :
                \E i \in 1..Len(result.value.gradients[1][k]) : result.value.gradients[1][k][i] # 0

\* ceil(n / b)
Ceil(n, b) == (n + b - 1) \div b

\* Batches j .. count of partial_fit, started on the lists l, leave the
\* lists final: batch j is the instances (j - 1) * b + 1 .. min(j * b, n)
\* with their labels, and each batch is one training call that returns,
\* made on the lists the batch before left.
RECURSIVE BatchesLeave(_, _, _, _, _, _, _, _, _, _)
BatchesLeave(h, l, x, xs, ys, alpha, b, j, count, final) ==
    IF j > count THEN l = final
    ELSE \E r \in {call(h, l, x, SubSeq(xs, (j - 1) * b + 1, Min(j * b, Len(xs))),
                         Some(SubSeq(ys, (j - 1) * b + 1, Min(j * b, Len(xs)))), alpha, {})} :
             /\ r.exc = "none"
             /\ BatchesLeave(h, r.lists, x, xs, ys, alpha, b, j + 1, count, final)

\* The step just taken was a partial_fit that returned.
Fitted == Did("partial_fit") /\ result'.exc = "none"

\* C25: partial_fit with batch_size b over n instances leaves the weights
\* that ceil(n / b) training calls leave, one for each of the consecutive
\* batches [0, b), [b, 2b), ..., each made on the weights the one before
\* left; without batch_size the one batch is the whole data.
C25_MiniBatches ==
    [][Fitted =>
        \E x \in {result'.self}, xs \in {result'.args.xs}, ys \in {result'.args.labels[1]},
           alpha \in {result'.args.alpha}, batch_size \in {result'.args.batch_size} :
            \E b \in {IF batch_size = Null THEN Len(xs) ELSE batch_size[1]} :
                \E final \in {lists'} :
                    BatchesLeave(heap, lists, x, xs, ys, alpha, b, 1, Ceil(Len(xs), b), final)
      ]_vars

\* partial_fit has returned after two batches or more, the last smaller
\* than the others, on a network with a DenseLayer to train.
C25_Witness ==
    /\ result.op = "partial_fit"
    /\ result.exc = "none"
    /\ result.args.batch_size # Null
    /\ \E n \in {Len(result.args.xs)}, b \in {result.args.batch_size[1]} :
        /\ b > 1
        /\ n > b
        /\ n % b # 0
    /\ \E v \in Range(Path(heap, result.self)) :
        /\ heap[v].cls = "DenseLayer"
        /\ heap[v].weights # None

\* C26: the loss partial_fit appends to training_history for an epoch is
\* the mean loss of the training data under the weights the network
\* holds when partial_fit returns.
C26_LossAfterTraining ==
    [][Fitted =>
        \E x \in {result'.self}, xs \in {result'.args.xs}, labels \in {result'.args.labels},
           after \in {heap'}, left \in {lists'} :
            \E e \in {InputLayer_evaluate(after, left, x, xs, labels)},
               appended \in {Last(after[x].training_history["loss"])} :
                /\ e.exc = "none"
                /\ Len(after[x].training_history["loss"]) = Len(heap[x].training_history["loss"]) + 1
                /\ appended.num * e.ret[1].den = e.ret[1].num * appended.den
      ]_vars

\* The chain headed by x does not end in a LossLayer.
NoLossLayer(h, x) == h[Last(Path(h, x))].cls # "LossLayer"

\* C27: a call, predict, evaluate or partial_fit on a chain whose tail is
\* not a LossLayer raises an error and leaves every object as it was: the
\* weights and biases of every DenseLayer and the training_history.
C27_NoLossLayerFails ==
    [][/\ result'.op \in {"call", "predict", "evaluate", "partial_fit"}
       /\ NoLossLayer(heap, result'.self)
       => /\ result'.exc # "none"
          /\ heap' = heap
          /\ lists' = lists
      ]_vars

\* A training call or partial_fit has raised on a chain without LossLayer
\* that holds a DenseLayer with weights.
C27_Witness ==
    /\ result.op \in {"call", "partial_fit"}
    /\ result.args.alpha = Some(Rate)
    /\ result.args.labels # Null
    /\ Len(result.args.xs) > 0
    /\ result.exc # "none"
    /\ NoLossLayer(heap, result.self)
    /\ \E v \in Range(Path(heap, result.self)) : heap[v].cls = "DenseLayer" /\ heap[v].weights # None

\* C28: a call with a learning rate and without labels raises an error and
\* leaves the weights and biases of every DenseLayer as they were.
C28_RateWithoutLabelsFails ==
    [][/\ Did("call")
       /\ result'.args.alpha # Null
       /\ result'.args.labels = Null
       => /\ result'.exc # "none"
          /\ lists' = lists
      ]_vars

\* C29: partial_fit leaves fitted True exactly when it was True already or
\* the pass made no update (every instance was predicted as its target);
\* no step takes fitted from True to False; and fit on a fitted perceptron
\* makes no pass and leaves bias and weights as they were.
C29_FittedIsKept ==
    [][/\ \A i \in 1..Len(perceptrons) : perceptrons[i].fitted => perceptrons'[i].fitted
       /\ Did("Perceptron.partial_fit") =>
              \E p \in {perceptrons[result'.self]}, xs \in {result'.args.xs}, ys \in {result'.args.ys} :
                  perceptrons'[result'.self].fitted = (p.fitted \/ Perceptron_predict(p, xs) = ys)
       /\ Did("Perceptron.fit") /\ perceptrons[result'.self].fitted =>
              /\ result'.exc = "none"
              /\ result'.value.passes = 0
              /\ perceptrons'[result'.self] = perceptrons[result'.self]
      ]_vars

\* A fitted perceptron has been handed other data by partial_fit: the pass
\* updated it, it no longer predicts the targets, and fitted is still True.
C29_Witness ==
    /\ result.op = "Perceptron.partial_fit"
    /\ perceptrons[result.self].fitted
    /\ Perceptron_predict(perceptrons[result.self], result.args.xs) # result.args.ys

\* Epochs e .. epochs of fit, started on heap h and lists l, leave the heap
\* and lists given: in every epoch the network is trained for one epoch
\* on the instances of the caller's xs in the order shuffles[e], each with
\* the label that stands at its place in the caller's labels.
RECURSIVE EpochsLeave(_, _, _, _, _, _, _, _, _, _, _, _)
EpochsLeave(h, l, x, xs, ys, alpha, batch_size, shuffles, e, epochs, after, left) ==
    IF e > epochs THEN h = after /\ l = left
    ELSE \E order \in {shuffles[e]} :
             \E r \in {InputLayer_partial_fit(h, l, x, [k \in 1..Len(xs) |-> xs[order[k]]],
                                              Some([k \in 1..Len(xs) |-> ys[order[k]]]),
                                              alpha, Null, batch_size)} :
                 /\ r.exc = "none"
                 /\ EpochsLeave(r.heap, r.lists, x, xs, ys, alpha, batch_size, shuffles, e + 1, epochs,
                                after, left)

\* C30: fit trains every epoch on the caller's instances, each once and
\* with its own label, in the order the shuffle of that epoch left the
\* pairs in, for every batch_size; the caller's lists are read anew, in
\* their own order, by every epoch.  When an epoch is one batch the order
\* makes no difference: the outcome is that of training in the caller's
\* order.
C30_ShufflePreservesData ==
    [][Did("fit") /\ result'.exc = "none" =>
        \E x \in {result'.self}, xs \in {result'.args.xs}, ys \in {result'.args.labels[1]},
           alpha \in {result'.args.alpha}, batch_size \in {result'.args.batch_size},
           shuffles \in {result'.args.shuffles}, epochs \in {result'.args.epochs},
           after \in {heap'}, left \in {lists'} :
            /\ EpochsLeave(heap, lists, x, xs, ys, alpha, batch_size, shuffles, 1, epochs, after, left)
            /\ batch_size = Null =>
                   EpochsLeave(heap, lists, x, xs, ys, alpha, batch_size,
                               [e \in 1..epochs |-> [k \in 1..Len(xs) |-> k]], 1, epochs, after, left)
      ]_vars

\* fit has returned after an epoch or more of batches of one instance, on
\* instances with different labels that a shuffle left in another order
\* than the caller's, on a network with a DenseLayer to train.
C30_Witness ==
    /\ result.op = "fit"
    /\ result.exc = "none"
    /\ result.args.epochs >= 1
    /\ result.args.batch_size = Some(1)
    /\ \E i, j \in 1..Len(result.args.xs) : result.args.labels[1][i] # result.args.labels[1][j]
    /\ \E e \in 1..result.args.epochs : \E k \in 1..Len(result.args.xs) : result.args.shuffles[e][k] # k
    /\ \E v \in Range(Path(heap, result.self)) : heap[v].cls = "DenseLayer" /\ heap[v].weights # None

====
